---- MODULE Spec2Model ----
(***************************************************************************)
(* lazytodo (src/main.go, second program text, lines 1107-2463): the       *)
(* editable document model, the modal edit session, the undo/redo history  *)
(* and the reconciliation with the file on disk.                           *)
(*                                                                         *)
(* Strings are sequences of one-character strings.  The file content is a  *)
(* flat character sequence with "\n" line ends, as the program writes it.  *)
(***************************************************************************)
EXTENDS Integers, Sequences, FiniteSets, TLC

VARIABLES m, file, now, editor, exited, g

vars == <<m, file, now, editor, exited, g>>

(***************************************************************************)
(* Bounds of the model.                                                    *)
(***************************************************************************)
MaxLen == 2
MaxDraft == 1
MaxClock == 2
\* the longest run of mutating operations the history g follows
MaxOps == 2
\* the frames the two stacks hold together in a short session
MaxHist == 1
\* the deepest indent level the Tab key is followed to
MaxIndent == 1
\* the longest text or title of the line items the grammar is tried on
MaxText == 2

(***************************************************************************)
(* Program constants.                                                      *)
(***************************************************************************)
maxUndoHistory == 10

modeNormal == "modeNormal"
modeEdit == "modeEdit"
editIntentNone == "editIntentNone"
editIntentUpdate == "editIntentUpdate"
editIntentInsert == "editIntentInsert"
editTargetTask == "editTargetTask"
editTargetSection == "editTargetSection"
lineTask == "lineTask"
lineSection == "lineSection"

\* time.Time{}: the zero time, earlier than every file time
zeroTime == 0

(***************************************************************************)
(* Character strings.                                                      *)
(***************************************************************************)
\* the characters \s of the patterns and strings.TrimSpace treat as blank
IsSpace(c) == c \in {" ", "\t", "\n", "\r", "\f"}

RECURSIVE TrimLeft(_)
TrimLeft(s) ==
    IF s # <<>> /\ IsSpace(Head(s)) THEN TrimLeft(Tail(s)) ELSE s

RECURSIVE TrimRight(_)
TrimRight(s) ==
    IF s # <<>> /\ IsSpace(s[Len(s)]) THEN TrimRight(SubSeq(s, 1, Len(s) - 1)) ELSE s

TrimSpace(s) == TrimRight(TrimLeft(s))

\* the longest prefix of s made of blank characters
RECURSIVE SpaceRun(_)
SpaceRun(s) ==
    IF s # <<>> /\ IsSpace(Head(s)) THEN <<Head(s)>> \o SpaceRun(Tail(s)) ELSE <<>>

Drop(s, n) == SubSeq(s, n + 1, Len(s))

RECURSIVE RemoveCR(_)
RemoveCR(s) ==
    IF s = <<>> THEN <<>>
    ELSE IF Head(s) = "\r" THEN RemoveCR(Tail(s))
    ELSE <<Head(s)>> \o RemoveCR(Tail(s))

\* strings.Split(s, "\n"): always at least one piece
RECURSIVE SplitAcc(_, _)
SplitAcc(s, cur) ==
    IF s = <<>> THEN <<cur>>
    ELSE IF Head(s) = "\n" THEN <<cur>> \o SplitAcc(Tail(s), <<>>)
    ELSE SplitAcc(Tail(s), Append(cur, Head(s)))

SplitLines(s) == SplitAcc(s, <<>>)

RECURSIVE Spaces(_)
Spaces(n) == IF n = 0 THEN <<>> ELSE <<" ">> \o Spaces(n - 1)

(***************************************************************************)
(* Line grammar.                                                           *)
(***************************************************************************)
Task(indent, bullet, completed, text) ==
    [Indent |-> indent, Bullet |-> bullet, Completed |-> completed, Text |-> text]

emptyTask == Task(<<>>, "", FALSE, <<>>)

TaskItem(t) == [Kind |-> lineTask, Task |-> t, SectionTitle |-> <<>>]

SectionItem(title) == [Kind |-> lineSection, Task |-> emptyTask, SectionTitle |-> title]

\* task.line: "%s%s [%s] %s"
taskLine(t) ==
    t.Indent \o <<t.Bullet>> \o <<" ", "[", (IF t.Completed THEN "x" ELSE " "), "]", " ">> \o t.Text

\* lineItem.line
line(l) ==
    IF l.Kind = lineSection THEN <<"#", "#", " ">> \o l.SectionTitle ELSE taskLine(l.Task)

\* sectionPattern ^##\s+(.*)$ : the match, or the empty set
sectionMatch(s) ==
    IF Len(s) >= 3 /\ s[1] = "#" /\ s[2] = "#" /\ IsSpace(s[3])
    THEN {Drop(s, 2 + Len(SpaceRun(Drop(s, 2))))}
    ELSE {}

\* checkboxPattern ^(\s*)([-*])\s+\[([ xX])\]\s*(.*)$ : the groups, or the empty set
checkboxMatch(s) ==
    LET ind == SpaceRun(s)
        r1 == Drop(s, Len(ind))
    IN  IF r1 = <<>> \/ Head(r1) \notin {"-", "*"} THEN {}
        ELSE
          LET r2 == Tail(r1)
              gap == SpaceRun(r2)
              r3 == Drop(r2, Len(gap))
          IN  IF gap = <<>> \/ Len(r3) < 3 THEN {}
              ELSE IF r3[1] # "[" \/ r3[2] \notin {" ", "x", "X"} \/ r3[3] # "]" THEN {}
              ELSE
                LET r4 == Drop(r3, 3)
                IN  {<<ind, Head(r1), r3[2], Drop(r4, Len(SpaceRun(r4)))>>}

\* the body of the loop of loadLines keeping a line that matches no pattern
\* as the text of a task
parseLine_keepOther(s) ==
    IF TrimSpace(s) = <<>> THEN <<>>
    ELSE IF sectionMatch(s) # {} THEN <<SectionItem(CHOOSE t \in sectionMatch(s) : TRUE)>>
    ELSE IF checkboxMatch(s) = {} THEN <<TaskItem(Task(<<>>, "-", FALSE, s))>>
    ELSE LET mt == CHOOSE x \in checkboxMatch(s) : TRUE
         IN  <<TaskItem(Task(mt[1], mt[2], mt[3] \in {"x", "X"}, mt[4]))>>

\* the body of the loop of loadLines: zero or one item for a line of the file
parseLine(s) ==
    IF TrimSpace(s) = <<>> THEN <<>>
    ELSE IF sectionMatch(s) # {} THEN <<SectionItem(CHOOSE t \in sectionMatch(s) : TRUE)>>
    ELSE IF checkboxMatch(s) = {} THEN <<>>
    ELSE LET mt == CHOOSE x \in checkboxMatch(s) : TRUE
         IN  <<TaskItem(Task(mt[1], mt[2], mt[3] \in {"x", "X"}, mt[4]))>>

RECURSIVE parseAll(_)
parseAll(ls) ==
    IF ls = <<>> THEN <<>> ELSE parseLine(Head(ls)) \o parseAll(Tail(ls))

\* the items loadLines builds from the bytes of the file
parseContent(data) == parseAll(SplitLines(RemoveCR(data)))

\* the string saveLines writes
RECURSIVE serialize(_)
serialize(ls) ==
    IF ls = <<>> THEN <<>> ELSE line(Head(ls)) \o <<"\n">> \o serialize(Tail(ls))

(***************************************************************************)
(* The file system.  file = [exists, content, mtime]; an operation that    *)
(* touches the disk takes the outcome io of its system calls:              *)
(*   "ok"        every call succeeds                                       *)
(*   "fail"      os.ReadFile / os.WriteFile / os.CreateTemp fails          *)
(*   "statfail"  the os.Stat that follows the read or the write fails      *)
(*   "stat0fail" the os.Stat that opens handleFileCheck fails              *)
(***************************************************************************)
errNone == "nil"
errIO == "io error"
errEditor == "editor error"

\* loadLines returning the lines it has parsed, and no error, when os.Stat fails
loadLines_ignoreStat(f, io) ==
    IF ~f.exists THEN [lines |-> <<>>, modTime |-> zeroTime, err |-> errNone]
    ELSE IF io = "fail" THEN [lines |-> <<>>, modTime |-> zeroTime, err |-> errIO]
    ELSE IF io = "statfail" THEN [lines |-> parseContent(f.content), modTime |-> zeroTime, err |-> errNone]
    ELSE [lines |-> parseContent(f.content), modTime |-> f.mtime, err |-> errNone]

loadLines(f, io) ==
    IF ~f.exists THEN [lines |-> <<>>, modTime |-> zeroTime, err |-> errNone]
    ELSE IF io = "fail" THEN [lines |-> <<>>, modTime |-> zeroTime, err |-> errIO]
    ELSE IF io = "statfail" THEN [lines |-> parseContent(f.content), modTime |-> zeroTime, err |-> errIO]
    ELSE [lines |-> parseContent(f.content), modTime |-> f.mtime, err |-> errNone]

\* saveLines touching the file without replacing what it holds
saveLines_keepContent(f, lines, io, t) ==
    IF io = "fail" THEN [file |-> f, modTime |-> zeroTime, err |-> errIO]
    ELSE LET nf == [exists |-> TRUE, content |-> f.content, mtime |-> t]
         IN  IF io = "statfail" THEN [file |-> nf, modTime |-> zeroTime, err |-> errIO]
             ELSE [file |-> nf, modTime |-> t, err |-> errNone]

\* the file after the write, the time os.Stat reports, and the error
saveLines(f, lines, io, t) ==
    IF io = "fail" THEN [file |-> f, modTime |-> zeroTime, err |-> errIO]
    ELSE LET nf == [exists |-> TRUE, content |-> serialize(lines), mtime |-> t]
         IN  IF io = "statfail" THEN [file |-> nf, modTime |-> zeroTime, err |-> errIO]
             ELSE [file |-> nf, modTime |-> t, err |-> errNone]

(***************************************************************************)
(* Helpers of the model struct.  A state st is [m |-> model, file |-> f].  *)
(***************************************************************************)
clampCursor(cursor, length) ==
    IF length = 0 THEN 0
    ELSE IF cursor < 0 THEN 0
    ELSE IF cursor >= length THEN length - 1
    ELSE cursor

clampIndex(index, length) ==
    IF index < 0 THEN 0
    ELSE IF index > length THEN length
    ELSE index

\* Go slices index from 0
At(lines, i) == lines[i + 1]

InRange(lines, i) == i >= 0 /\ i < Len(lines)

RemoveAt(lines, i) == SubSeq(lines, 1, i) \o SubSeq(lines, i + 2, Len(lines))

\* slices.Insert(lines, i, x)
InsertAt(lines, i, x) == SubSeq(lines, 1, i) \o <<x>> \o SubSeq(lines, i + 1, Len(lines))

\* copyLines: the elements hold no pointers, the copy is a value
copyLines(lines) == lines

undoStateOf(mm) == [lines |-> copyLines(mm.lines), cursor |-> mm.cursor]

RECURSIVE firstTask(_)
firstTask(lines) ==
    IF lines = <<>> THEN <<>>
    ELSE IF Head(lines).Kind = lineTask THEN <<Head(lines).Task>>
    ELSE firstTask(Tail(lines))

defaultTaskTemplate(lines) ==
    IF firstTask(lines) = <<>> THEN [Indent |-> <<>>, Bullet |-> "-"]
    ELSE [Indent |-> firstTask(lines)[1].Indent, Bullet |-> firstTask(lines)[1].Bullet]

\* saveUndoState dropping the frame just pushed when the stack is full
saveUndoState_keepOldest(mm) ==
    LET pushed == Append(mm.undoStack, undoStateOf(mm))
    IN  [mm EXCEPT !.undoStack = IF Len(pushed) > maxUndoHistory
                                 THEN SubSeq(pushed, 1, maxUndoHistory) ELSE pushed,
                   !.redoStack = <<>>]

saveUndoState(mm) ==
    LET pushed == Append(mm.undoStack, undoStateOf(mm))
    IN  [mm EXCEPT !.undoStack = IF Len(pushed) > maxUndoHistory THEN Tail(pushed) ELSE pushed,
                   !.redoStack = <<>>]

\* undo recording the redo frame without the cursor
undo_forgetCursor(mm) ==
    IF Len(mm.undoStack) = 0 THEN [mm EXCEPT !.statusMessage = "Nothing to undo"]
    ELSE LET lastIdx == Len(mm.undoStack)
             state == mm.undoStack[lastIdx]
         IN  [mm EXCEPT !.redoStack = Append(mm.redoStack, [lines |-> copyLines(mm.lines), cursor |-> 0]),
                        !.undoStack = SubSeq(mm.undoStack, 1, lastIdx - 1),
                        !.lines = state.lines,
                        !.cursor = clampCursor(state.cursor, Len(state.lines)),
                        !.statusMessage = "Undo"]

undo(mm) ==
    IF Len(mm.undoStack) = 0 THEN [mm EXCEPT !.statusMessage = "Nothing to undo"]
    ELSE LET lastIdx == Len(mm.undoStack)
             state == mm.undoStack[lastIdx]
         IN  [mm EXCEPT !.redoStack = Append(mm.redoStack, undoStateOf(mm)),
                        !.undoStack = SubSeq(mm.undoStack, 1, lastIdx - 1),
                        !.lines = state.lines,
                        !.cursor = clampCursor(state.cursor, Len(state.lines)),
                        !.statusMessage = "Undo"]

\* redo reporting a redo when the stack is empty
redo_emptyReports(mm) ==
    IF Len(mm.redoStack) = 0 THEN [mm EXCEPT !.statusMessage = "Redo"]
    ELSE LET lastIdx == Len(mm.redoStack)
             state == mm.redoStack[lastIdx]
         IN  [mm EXCEPT !.undoStack = Append(mm.undoStack, undoStateOf(mm)),
                        !.redoStack = SubSeq(mm.redoStack, 1, lastIdx - 1),
                        !.lines = state.lines,
                        !.cursor = clampCursor(state.cursor, Len(state.lines)),
                        !.statusMessage = "Redo"]

redo(mm) ==
    IF Len(mm.redoStack) = 0 THEN [mm EXCEPT !.statusMessage = "Nothing to redo"]
    ELSE LET lastIdx == Len(mm.redoStack)
             state == mm.redoStack[lastIdx]
         IN  [mm EXCEPT !.undoStack = Append(mm.undoStack, undoStateOf(mm)),
                        !.redoStack = SubSeq(mm.redoStack, 1, lastIdx - 1),
                        !.lines = state.lines,
                        !.cursor = clampCursor(state.cursor, Len(state.lines)),
                        !.statusMessage = "Redo"]

\* selectionRange taking the anchor as it is stored
selectionRange_rawAnchor(mm) ==
    IF ~mm.selectionActive \/ Len(mm.lines) = 0 THEN <<>>
    ELSE LET anchor == mm.selectionAnchor
             cursor == clampCursor(mm.cursor, Len(mm.lines))
         IN  IF anchor <= cursor THEN <<anchor, cursor>> ELSE <<cursor, anchor>>

\* selectionRange: <<start, end>>, or the empty sequence for ok = false
selectionRange(mm) ==
    IF ~mm.selectionActive \/ Len(mm.lines) = 0 THEN <<>>
    ELSE LET anchor == clampCursor(mm.selectionAnchor, Len(mm.lines))
             cursor == clampCursor(mm.cursor, Len(mm.lines))
         IN  IF anchor <= cursor THEN <<anchor, cursor>> ELSE <<cursor, anchor>>

\* clearSelection leaving the selection as it is
clearSelection_keep(mm) == mm

clearSelection(mm) == [mm EXCEPT !.selectionActive = FALSE]

\* normalizeSelection leaving the anchor where it was
normalizeSelection_keepAnchor(mm) ==
    IF ~mm.selectionActive THEN mm
    ELSE IF Len(mm.lines) = 0 THEN [mm EXCEPT !.selectionActive = FALSE]
    ELSE mm

normalizeSelection(mm) ==
    IF ~mm.selectionActive THEN mm
    ELSE IF Len(mm.lines) = 0 THEN [mm EXCEPT !.selectionActive = FALSE]
    ELSE [mm EXCEPT !.selectionAnchor =
            IF mm.selectionAnchor < 0 THEN 0
            ELSE IF mm.selectionAnchor >= Len(mm.lines) THEN Len(mm.lines) - 1
            ELSE mm.selectionAnchor]

\* saveAndSetStatus forgetting the time of the write
saveAndSetStatus_keepTime(st, msg, io, t) ==
    LET r == saveLines(st.file, st.m.lines, io, t)
    IN  IF r.err # errNone
        THEN [m |-> [st.m EXCEPT !.err = r.err], file |-> r.file]
        ELSE [m |-> [st.m EXCEPT !.statusMessage = msg, !.err = errNone], file |-> r.file]

saveAndSetStatus(st, msg, io, t) ==
    LET r == saveLines(st.file, st.m.lines, io, t)
    IN  IF r.err # errNone
        THEN [m |-> [st.m EXCEPT !.err = r.err], file |-> r.file]
        ELSE [m |-> [st.m EXCEPT !.lastModifiedAt = r.modTime, !.statusMessage = msg, !.err = errNone],
              file |-> r.file]

(***************************************************************************)
(* Indentation.                                                            *)
(***************************************************************************)
indentLevels == <<Spaces(0), Spaces(4), Spaces(8), Spaces(12)>>

\* len(strings.ReplaceAll(indent, "\t", "    "))
RECURSIVE normalizedLen(_)
normalizedLen(indent) ==
    IF indent = <<>> THEN 0
    ELSE (IF Head(indent) = "\t" THEN 4 ELSE 1) + normalizedLen(Tail(indent))

getIndentLevel(indent) ==
    LET level == normalizedLen(indent) \div 4
    IN  IF level >= Len(indentLevels) THEN Len(indentLevels) - 1 ELSE level

\* the indent changeIndent starts from: of the task under edit, or of the template
currentIndent(mm) ==
    IF mm.editIntent = editIntentUpdate /\ InRange(mm.lines, mm.editIndex)
    THEN At(mm.lines, mm.editIndex).Task.Indent
    ELSE mm.editTemplate.Indent

changeIndent(mm, delta) ==
    LET onUpdate == mm.editIntent = editIntentUpdate /\ InRange(mm.lines, mm.editIndex)
        stepped == getIndentLevel(currentIndent(mm)) + delta
        newLevel == IF stepped < 0 THEN 0
                    ELSE IF stepped >= Len(indentLevels) THEN Len(indentLevels) - 1
                    ELSE stepped
        newIndent == indentLevels[newLevel + 1]
    IN  IF onUpdate
        THEN IF At(mm.lines, mm.editIndex).Kind # lineTask THEN mm
             ELSE [mm EXCEPT !.lines[mm.editIndex + 1].Task.Indent = newIndent]
        ELSE IF mm.editIntent = editIntentInsert
        THEN [mm EXCEPT !.editTemplate.Indent = newIndent]
        ELSE mm

(***************************************************************************)
(* The edit session.                                                       *)
(***************************************************************************)
\* applyCurrentEdit adding the new item after the last line
applyCurrentEdit_append(mm, value) ==
    IF mm.editTarget = editTargetSection
    THEN IF mm.editIntent = editIntentUpdate
         THEN IF Len(mm.lines) = 0 THEN mm
              ELSE IF InRange(mm.lines, mm.editIndex) /\ At(mm.lines, mm.editIndex).Kind = lineSection
              THEN [saveUndoState(mm) EXCEPT !.lines[mm.editIndex + 1].SectionTitle = value]
              ELSE mm
         ELSE IF mm.editIntent = editIntentInsert
         THEN LET idx == Len(mm.lines)
                  m1 == saveUndoState([mm EXCEPT !.insertIndex = idx])
              IN  [m1 EXCEPT !.lines = InsertAt(mm.lines, idx, SectionItem(value)),
                             !.cursor = idx]
         ELSE mm
    ELSE IF mm.editIntent = editIntentUpdate
         THEN IF Len(mm.lines) = 0 THEN mm
              ELSE IF InRange(mm.lines, mm.editIndex) /\ At(mm.lines, mm.editIndex).Kind = lineTask
              THEN [mm EXCEPT !.lines[mm.editIndex + 1].Task.Text = value]
              ELSE mm
         ELSE IF mm.editIntent = editIntentInsert
         THEN LET idx == Len(mm.lines)
                  newTask == TaskItem(Task(mm.editTemplate.Indent, mm.editTemplate.Bullet, FALSE, value))
              IN  [mm EXCEPT !.insertIndex = idx,
                             !.lines = InsertAt(mm.lines, idx, newTask),
                             !.cursor = idx]
         ELSE mm

\* applyCurrentEdit applies the draft to the lines, without saving
applyCurrentEdit(mm, value) ==
    IF mm.editTarget = editTargetSection
    THEN IF mm.editIntent = editIntentUpdate
         THEN IF Len(mm.lines) = 0 THEN mm
              ELSE IF InRange(mm.lines, mm.editIndex) /\ At(mm.lines, mm.editIndex).Kind = lineSection
              THEN [saveUndoState(mm) EXCEPT !.lines[mm.editIndex + 1].SectionTitle = value]
              ELSE mm
         ELSE IF mm.editIntent = editIntentInsert
         THEN LET idx == clampIndex(mm.insertIndex, Len(mm.lines))
                  m1 == saveUndoState([mm EXCEPT !.insertIndex = idx])
              IN  [m1 EXCEPT !.lines = InsertAt(mm.lines, idx, SectionItem(value)),
                             !.cursor = idx]
         ELSE mm
    ELSE IF mm.editIntent = editIntentUpdate
         THEN IF Len(mm.lines) = 0 THEN mm
              ELSE IF InRange(mm.lines, mm.editIndex) /\ At(mm.lines, mm.editIndex).Kind = lineTask
              THEN [mm EXCEPT !.lines[mm.editIndex + 1].Task.Text = value]
              ELSE mm
         ELSE IF mm.editIntent = editIntentInsert
         THEN LET idx == clampIndex(mm.insertIndex, Len(mm.lines))
                  newTask == TaskItem(Task(mm.editTemplate.Indent, mm.editTemplate.Bullet, FALSE, value))
              IN  [mm EXCEPT !.insertIndex = idx,
                             !.lines = InsertAt(mm.lines, idx, newTask),
                             !.cursor = idx]
         ELSE mm

\* exitEditMode without the clamp of the cursor
exitEditMode_noClamp(mm) ==
    normalizeSelection([mm EXCEPT !.mode = modeNormal,
                                  !.editIntent = editIntentNone,
                                  !.editTarget = editTargetTask,
                                  !.pendingReload = FALSE,
                                  !.editIndex = -1,
                                  !.draft = <<>>])

\* exitEditMode resets the transient edit state, without saving
exitEditMode(mm) ==
    normalizeSelection([mm EXCEPT !.mode = modeNormal,
                                  !.editIntent = editIntentNone,
                                  !.editTarget = editTargetTask,
                                  !.pendingReload = FALSE,
                                  !.editIndex = -1,
                                  !.cursor = clampCursor(mm.cursor, Len(mm.lines)),
                                  !.draft = <<>>])

\* startEditTask opening the draft on the first line
startEditTask_firstLine(mm) ==
    IF Len(mm.lines) = 0 \/ At(mm.lines, mm.cursor).Kind # lineTask THEN mm
    ELSE [clearSelection(mm) EXCEPT !.mode = modeEdit,
                                    !.editIntent = editIntentUpdate,
                                    !.editTarget = editTargetTask,
                                    !.draft = At(mm.lines, mm.cursor).Task.Text,
                                    !.editIndex = 0,
                                    !.statusMessage = "Editing current task"]

startEditTask(mm) ==
    IF Len(mm.lines) = 0 \/ At(mm.lines, mm.cursor).Kind # lineTask THEN mm
    ELSE [clearSelection(mm) EXCEPT !.mode = modeEdit,
                                    !.editIntent = editIntentUpdate,
                                    !.editTarget = editTargetTask,
                                    !.draft = At(mm.lines, mm.cursor).Task.Text,
                                    !.editIndex = mm.cursor,
                                    !.statusMessage = "Editing current task"]

startEditSection(mm) ==
    IF Len(mm.lines) = 0 \/ At(mm.lines, mm.cursor).Kind # lineSection THEN mm
    ELSE [clearSelection(mm) EXCEPT !.mode = modeEdit,
                                    !.editIntent = editIntentUpdate,
                                    !.editTarget = editTargetSection,
                                    !.draft = At(mm.lines, mm.cursor).SectionTitle,
                                    !.editIndex = mm.cursor,
                                    !.statusMessage = "Editing section"]

startEditCurrent(mm) ==
    IF Len(mm.lines) = 0 THEN mm
    ELSE IF At(mm.lines, mm.cursor).Kind = lineSection THEN startEditSection(mm)
    ELSE startEditTask(mm)

startInsertTaskAt(mm, index) ==
    LET template == IF Len(mm.lines) > 0 /\ InRange(mm.lines, mm.cursor)
                       /\ At(mm.lines, mm.cursor).Kind = lineTask
                    THEN [Indent |-> At(mm.lines, mm.cursor).Task.Indent,
                          Bullet |-> At(mm.lines, mm.cursor).Task.Bullet]
                    ELSE mm.editTemplate
        idx == IF Len(mm.lines) = 0 THEN 0 ELSE clampIndex(index, Len(mm.lines))
    IN  [clearSelection(mm) EXCEPT !.mode = modeEdit,
                                   !.editIntent = editIntentInsert,
                                   !.editTarget = editTargetTask,
                                   !.insertIndex = idx,
                                   !.editIndex = idx,
                                   !.cursor = idx,
                                   !.draft = <<>>,
                                   !.statusMessage = "New task",
                                   !.editTemplate = template]

startInsertSectionAt(mm, index) ==
    LET idx == IF Len(mm.lines) = 0 THEN 0 ELSE clampIndex(index, Len(mm.lines))
    IN  [clearSelection(mm) EXCEPT !.mode = modeEdit,
                                   !.editIntent = editIntentInsert,
                                   !.editTarget = editTargetSection,
                                   !.insertIndex = idx,
                                   !.editIndex = idx,
                                   !.cursor = idx,
                                   !.draft = <<>>,
                                   !.statusMessage = "New section"]

\* the case tea.KeyEsc applying the draft without the test for a blank one
editKeyEsc_applyBlank(st, io, t) ==
    LET s1 == saveAndSetStatus([st EXCEPT !.m = applyCurrentEdit(st.m, st.m.draft)], "Saved", io, t)
    IN  [s1 EXCEPT !.m = exitEditMode(s1.m)]

\* handleEditKey, case tea.KeyEsc
editKeyEsc(st, io, t) ==
    LET rawValue == st.m.draft
        s1 == IF TrimSpace(rawValue) # <<>>
              THEN saveAndSetStatus([st EXCEPT !.m = applyCurrentEdit(st.m, rawValue)], "Saved", io, t)
              ELSE st
    IN  [s1 EXCEPT !.m = exitEditMode(s1.m)]

\* handleEditKey, case tea.KeyEnter, the next draft opened on the committed
\* line instead of below it
editKeyEnter_sameIndex(st, io, t) ==
    LET rawValue == st.m.draft
    IN  IF TrimSpace(rawValue) = <<>> THEN [st EXCEPT !.m = exitEditMode(st.m)]
        ELSE LET s1 == saveAndSetStatus([st EXCEPT !.m = applyCurrentEdit(st.m, rawValue)], "", io, t)
             IN  IF s1.m.editTarget = editTargetTask
                 THEN [s1 EXCEPT !.m = [s1.m EXCEPT !.insertIndex = s1.m.cursor,
                                                    !.editIndex = s1.m.cursor,
                                                    !.editIntent = editIntentInsert,
                                                    !.draft = <<>>]]
                 ELSE [s1 EXCEPT !.m = exitEditMode(s1.m)]

\* handleEditKey, case tea.KeyEnter
editKeyEnter(st, io, t) ==
    LET rawValue == st.m.draft
    IN  IF TrimSpace(rawValue) = <<>> THEN [st EXCEPT !.m = exitEditMode(st.m)]
        ELSE LET s1 == saveAndSetStatus([st EXCEPT !.m = applyCurrentEdit(st.m, rawValue)], "", io, t)
             IN  IF s1.m.editTarget = editTargetTask
                 THEN [s1 EXCEPT !.m = [s1.m EXCEPT !.insertIndex = s1.m.cursor + 1,
                                                    !.editIndex = s1.m.cursor + 1,
                                                    !.editIntent = editIntentInsert,
                                                    !.cursor = s1.m.cursor + 1,
                                                    !.draft = <<>>]]
                 ELSE [s1 EXCEPT !.m = exitEditMode(s1.m)]

\* handleEditKey, cases tea.KeyTab (delta 1) and tea.KeyShiftTab (delta -1);
\* on a Section target the key falls through to the text input, which ignores it
editKeyTab(st, delta) ==
    IF st.m.editTarget = editTargetTask THEN [st EXCEPT !.m = changeIndent(st.m, delta)] ELSE st

\* handleEditKey, the keys left to textinput.Update: a rune typed at the end
\* of the value, and backspace
editKeyRune(st, c) == [st EXCEPT !.m.draft = Append(st.m.draft, c)]

editKeyBackspace(st) ==
    [st EXCEPT !.m.draft = IF st.m.draft = <<>> THEN <<>>
                           ELSE SubSeq(st.m.draft, 1, Len(st.m.draft) - 1)]

(***************************************************************************)
(* Normal mode.                                                            *)
(***************************************************************************)
\* deleteCurrentTask leaving the cursor where the deleted task was
deleteCurrentTask_noClamp(st, io, t) ==
    IF Len(st.m.lines) = 0 \/ At(st.m.lines, st.m.cursor).Kind # lineTask
    THEN [st EXCEPT !.m.statusMessage = "No task to delete"]
    ELSE LET m1 == clearSelection(saveUndoState(st.m))
             rest == RemoveAt(m1.lines, m1.cursor)
             m2 == [m1 EXCEPT !.lines = rest, !.cursor = m1.cursor]
         IN  saveAndSetStatus([st EXCEPT !.m = m2], "Deleted task", io, t)

deleteCurrentTask(st, io, t) ==
    IF Len(st.m.lines) = 0 \/ At(st.m.lines, st.m.cursor).Kind # lineTask
    THEN [st EXCEPT !.m.statusMessage = "No task to delete"]
    ELSE LET m1 == clearSelection(saveUndoState(st.m))
             rest == RemoveAt(m1.lines, m1.cursor)
             m2 == [m1 EXCEPT !.lines = rest, !.cursor = clampCursor(m1.cursor, Len(rest))]
         IN  saveAndSetStatus([st EXCEPT !.m = m2], "Deleted task", io, t)

\* deleteCurrentSection leaving the cursor on the index of the deleted line
deleteCurrentSection_keepCursor(st, io, t) ==
    IF Len(st.m.lines) = 0 \/ At(st.m.lines, st.m.cursor).Kind # lineSection
    THEN [st EXCEPT !.m.statusMessage = "No section to delete"]
    ELSE LET m1 == clearSelection(saveUndoState(st.m))
             rest == RemoveAt(m1.lines, m1.cursor)
             m2 == [m1 EXCEPT !.lines = rest, !.cursor = clampCursor(m1.cursor, Len(rest))]
         IN  saveAndSetStatus([st EXCEPT !.m = m2], "Deleted section", io, t)

deleteCurrentSection(st, io, t) ==
    IF Len(st.m.lines) = 0 \/ At(st.m.lines, st.m.cursor).Kind # lineSection
    THEN [st EXCEPT !.m.statusMessage = "No section to delete"]
    ELSE LET m1 == clearSelection(saveUndoState(st.m))
             rest == RemoveAt(m1.lines, m1.cursor)
             m2 == [m1 EXCEPT !.lines = rest, !.cursor = clampCursor(m1.cursor - 1, Len(rest))]
         IN  saveAndSetStatus([st EXCEPT !.m = m2], "Deleted section", io, t)

deleteCurrentLine(st, io, t) ==
    IF Len(st.m.lines) = 0 THEN [st EXCEPT !.m.statusMessage = "Nothing to delete"]
    ELSE IF At(st.m.lines, st.m.cursor).Kind = lineSection THEN deleteCurrentSection(st, io, t)
    ELSE deleteCurrentTask(st, io, t)

\* the toggle flipping every line of the range, whatever its kind
toggledLines_anyKind(mm) ==
    LET rng == selectionRange(mm)
        hit(i) == IF mm.selectionActive THEN rng # <<>> /\ i >= rng[1] /\ i <= rng[2]
                  ELSE i = mm.cursor
    IN  [i \in 1..Len(mm.lines) |->
            IF hit(i - 1) THEN [mm.lines[i] EXCEPT !.Task.Completed = ~mm.lines[i].Task.Completed]
            ELSE mm.lines[i]]

\* the lines after the toggle of `enter` / space, and the number of tasks toggled
toggledLines(mm) ==
    LET rng == selectionRange(mm)
        hit(i) == At(mm.lines, i).Kind = lineTask
                  /\ IF mm.selectionActive THEN rng # <<>> /\ i >= rng[1] /\ i <= rng[2]
                     ELSE i = mm.cursor
    IN  [i \in 1..Len(mm.lines) |->
            IF hit(i - 1) THEN [mm.lines[i] EXCEPT !.Task.Completed = ~mm.lines[i].Task.Completed]
            ELSE mm.lines[i]]

toggledCount(mm) == Cardinality({i \in 1..Len(mm.lines) : toggledLines(mm)[i] # mm.lines[i]})

\* the last task toggled, for the status message
lastToggled(mm) ==
    LET idx == CHOOSE i \in 1..Len(mm.lines) :
                   /\ toggledLines(mm)[i] # mm.lines[i]
                   /\ \A j \in 1..Len(mm.lines) : toggledLines(mm)[j] # mm.lines[j] => j <= i
    IN  toggledLines(mm)[idx].Task

\* handleNormalKey, case "enter", " "
normalKeyToggle(st, io, t) ==
    IF Len(st.m.lines) = 0 THEN st
    ELSE LET count == toggledCount(st.m)
             m1 == [st.m EXCEPT !.lines = toggledLines(st.m), !.selectionActive = FALSE]
             s1 == [st EXCEPT !.m = m1]
         IN  IF count = 0 THEN s1
             ELSE IF count = 1
             THEN saveAndSetStatus(s1, IF lastToggled(st.m).Completed THEN "Marked Completed"
                                       ELSE "Marked Incomplete", io, t)
             ELSE saveAndSetStatus(s1, "Toggled tasks", io, t)

\* handleNormalKey, case "r"
normalKeyReload(st, io) ==
    LET r == loadLines(st.file, io)
    IN  IF r.err # errNone THEN [st EXCEPT !.m.err = r.err]
        ELSE LET m1 == normalizeSelection([st.m EXCEPT !.lines = r.lines,
                                                      !.cursor = clampCursor(st.m.cursor, Len(r.lines))])
             IN  [st EXCEPT !.m = [m1 EXCEPT !.lastModifiedAt = r.modTime,
                                             !.editTemplate = defaultTaskTemplate(r.lines),
                                             !.statusMessage = "Reloaded",
                                             !.err = errNone]]

\* startExternalEdit: the model, and whether the editor process was spawned
startExternalEdit(mm, io) ==
    IF Len(mm.lines) = 0 \/ At(mm.lines, mm.cursor).Kind # lineTask
    THEN [m |-> mm, spawned |-> FALSE]
    ELSE LET m1 == [clearSelection(mm) EXCEPT !.externalEditIdx = mm.cursor]
         IN  IF io # "ok" THEN [m |-> [m1 EXCEPT !.err = errIO], spawned |-> FALSE]
             ELSE [m |-> m1, spawned |-> TRUE]

\* handleNormalKey after the pending-d prefix has been dealt with
normalKeyBody(st, key, io, t) ==
    LET mm == st.m
        n == Len(mm.lines)
    IN  CASE key = "esc" ->
               IF mm.selectionActive
               THEN [st EXCEPT !.m.selectionActive = FALSE, !.m.statusMessage = "Selection canceled"]
               ELSE st
          [] key = "j" -> IF n > 0 /\ mm.cursor < n - 1 THEN [st EXCEPT !.m.cursor = mm.cursor + 1] ELSE st
          [] key = "k" -> IF n > 0 /\ mm.cursor > 0 THEN [st EXCEPT !.m.cursor = mm.cursor - 1] ELSE st
          [] key = "g" -> [st EXCEPT !.m.cursor = 0]
          [] key = "G" -> IF n > 0 THEN [st EXCEPT !.m.cursor = n - 1] ELSE st
          [] key = "d" -> [st EXCEPT !.m.pendingD = TRUE, !.m.statusMessage = "d-"]
          [] key = "u" ->
               LET m1 == undo(mm)
               IN  IF m1.statusMessage = "Undo"
                   THEN saveAndSetStatus([st EXCEPT !.m = m1], "Undo", io, t)
                   ELSE [st EXCEPT !.m = m1]
          [] key = "ctrl+r" ->
               LET m1 == redo(mm)
               IN  IF m1.statusMessage = "Redo"
                   THEN saveAndSetStatus([st EXCEPT !.m = m1], "Redo", io, t)
                   ELSE [st EXCEPT !.m = m1]
          [] key = "enter" -> normalKeyToggle(st, io, t)
          [] key = "V" ->
               IF n = 0 THEN st
               ELSE IF mm.selectionActive
               THEN [st EXCEPT !.m.selectionActive = FALSE, !.m.statusMessage = "Selection cleared"]
               ELSE [st EXCEPT !.m.selectionActive = TRUE,
                               !.m.selectionAnchor = mm.cursor,
                               !.m.statusMessage = "Visual line selection"]
          [] key = "e" -> [st EXCEPT !.m = startExternalEdit(mm, io).m]
          [] key = "i" -> [st EXCEPT !.m = startEditCurrent(mm)]
          [] key = "o" -> [st EXCEPT !.m = startInsertTaskAt(mm, mm.cursor + 1)]
          [] key = "O" -> [st EXCEPT !.m = startInsertTaskAt(mm, mm.cursor)]
          [] key = "S" -> [st EXCEPT !.m = startInsertSectionAt(mm, mm.cursor + 1)]
          [] key = "r" -> normalKeyReload(st, io)
          [] OTHER -> st

\* handleNormalKey: a second d deletes, any other key clears the prefix first
\* handleNormalKey keeping the prefix over a key that is not d
handleNormalKey_keepPrefix(st, key, io, t) ==
    IF st.m.pendingD /\ key = "d"
    THEN deleteCurrentLine([st EXCEPT !.m.pendingD = FALSE], io, t)
    ELSE normalKeyBody(st, key, io, t)

handleNormalKey(st, key, io, t) ==
    IF st.m.pendingD
    THEN LET s1 == [st EXCEPT !.m.pendingD = FALSE]
         IN  IF key = "d" THEN deleteCurrentLine(s1, io, t) ELSE normalKeyBody(s1, key, io, t)
    ELSE normalKeyBody(st, key, io, t)

\* time.Time.After accepting an equal time
After_orEqual(t, u) == t >= u

\* time.Time.After
After(t, u) == t > u

(***************************************************************************)
(* Reconciliation with the disk, and the external editor.                  *)
(***************************************************************************)
\* handleFileCheck reloading under a draft in progress
handleFileCheck_reloadInEdit(mm, f, io) ==
    IF ~f.exists THEN mm
    ELSE IF io = "stat0fail" THEN [mm EXCEPT !.err = errIO]
    ELSE IF ~After(f.mtime, mm.lastModifiedAt) THEN mm
    ELSE LET r == loadLines(f, io)
         IN  IF r.err # errNone THEN [mm EXCEPT !.err = r.err]
             ELSE LET m1 == normalizeSelection([mm EXCEPT !.lines = r.lines,
                                                         !.cursor = clampCursor(mm.cursor, Len(r.lines))])
                  IN  [m1 EXCEPT !.lastModifiedAt = r.modTime,
                                 !.statusMessage = "Reloaded from disk",
                                 !.err = errNone,
                                 !.editTemplate = defaultTaskTemplate(r.lines)]

handleFileCheck(mm, f, io) ==
    IF ~f.exists THEN mm
    ELSE IF io = "stat0fail" THEN [mm EXCEPT !.err = errIO]
    ELSE IF ~After(f.mtime, mm.lastModifiedAt) THEN mm
    ELSE IF mm.mode = modeEdit THEN [mm EXCEPT !.pendingReload = TRUE]
    ELSE LET r == loadLines(f, io)
         IN  IF r.err # errNone THEN [mm EXCEPT !.err = r.err]
             ELSE LET m1 == normalizeSelection([mm EXCEPT !.lines = r.lines,
                                                         !.cursor = clampCursor(mm.cursor, Len(r.lines))])
                  IN  [m1 EXCEPT !.lastModifiedAt = r.modTime,
                                 !.statusMessage = "Reloaded from disk",
                                 !.err = errNone,
                                 !.editTemplate = defaultTaskTemplate(r.lines)]

\* handleEditorFinished: res is <<"error">> (the editor failed), <<"unreadable">>
\* (the temporary file cannot be read) or <<"text", content>>, what the editor left
\* handleEditorFinished keeping the index when the editor has failed
handleEditorFinished_keepIdx(st, res, io, t) ==
    IF res = <<"error">>
    THEN [st EXCEPT !.m.err = errEditor, !.m.statusMessage = "Editor error"]
    ELSE IF res = <<"unreadable">>
    THEN [st EXCEPT !.m.err = errIO, !.m.externalEditIdx = -1]
    ELSE LET newText == TrimSpace(res[2])
             idx == st.m.externalEditIdx
         IN  IF newText = <<>>
             THEN [st EXCEPT !.m.statusMessage = "Cannot save empty task", !.m.externalEditIdx = -1]
             ELSE LET s1 == IF InRange(st.m.lines, idx) /\ At(st.m.lines, idx).Kind = lineTask
                            THEN saveAndSetStatus([st EXCEPT !.m.lines[idx + 1].Task.Text = newText],
                                                  "Saved", io, t)
                            ELSE st
                  IN  [s1 EXCEPT !.m.externalEditIdx = -1]

handleEditorFinished(st, res, io, t) ==
    IF res = <<"error">>
    THEN [st EXCEPT !.m.err = errEditor, !.m.externalEditIdx = -1, !.m.statusMessage = "Editor error"]
    ELSE IF res = <<"unreadable">>
    THEN [st EXCEPT !.m.err = errIO, !.m.externalEditIdx = -1]
    ELSE LET newText == TrimSpace(res[2])
             idx == st.m.externalEditIdx
         IN  IF newText = <<>>
             THEN [st EXCEPT !.m.statusMessage = "Cannot save empty task", !.m.externalEditIdx = -1]
             ELSE LET s1 == IF InRange(st.m.lines, idx) /\ At(st.m.lines, idx).Kind = lineTask
                            THEN saveAndSetStatus([st EXCEPT !.m.lines[idx + 1].Task.Text = newText],
                                                  "Saved", io, t)
                            ELSE st
                  IN  [s1 EXCEPT !.m.externalEditIdx = -1]

(***************************************************************************)
(* The state machine.                                                      *)
(*   m       the model struct of the program                               *)
(*   file    the todo file on disk                                         *)
(*   now     the clock that stamps every write of the file                 *)
(*   editor  TRUE while an editorFinishedMsg is outstanding                *)
(*   exited  TRUE once main has called os.Exit                             *)
(*   g       history the properties refer to; no operation reads it:       *)
(*           d0, nops  a document and the number of mutating operations    *)
(*                     performed on it since, with no other change; kept   *)
(*                     only in the sessions that follow runs (follow)      *)
(*           op        the last step was a delete or a commit              *)
(*           start     the lines when the draft in progress was opened     *)
(*           last      "esc" or "enter" after that key of the edit mode,   *)
(*                     "tick" after a fileCheckMsg                         *)
(*           evicted   the last step pushed a frame onto a full undo stack *)
(*           depth     the frames the session is followed to: a step that  *)
(*                     would leave more on the two stacks is not explored  *)
(*           tab       the indent level the Tab key is followed to         *)
(*           sel       the selection was active before the last step       *)
(*           arg       "none" or "explicit": the path argument of main      *)
(*           dreload   a tick has reloaded other lines since the d that set   *)
(*                     the prefix; kept over the delete of the second d     *)
(*           track     the arrays are followed: live, ua, ra are the        *)
(*                     addresses of the arrays under m.lines and under the  *)
(*                     frames of the undo and of the redo stack            *)
(*           cap       the longest draft the session types                 *)
(*           watch     the external edit and the writes are followed: ext   *)
(*                     holds the item under the cursor when the editor was *)
(*                     started; saved says that a delete or a commit has   *)
(*                     saved and no other program has written since, own   *)
(*                     that the program has not written since either       *)
(*                     without reading the time of its write               *)
(***************************************************************************)
St == [m |-> m, file |-> file]

\* what the user types into a draft, and what other programs leave in the file
Runes == {"a", " "}
ExternalContents ==
    { <<"#", "#", " ", "s", "\n">>,
      <<"-", " ", "[", "x", "]", " ", "b", "\n", "n", "o", "t", "e", "\n">> }
EditorResults == {<<"error">>, <<"unreadable">>, <<"text", <<" ">>>>, <<"text", <<"c", "\n">>>>}

IOs == {"ok", "fail", "statfail"}
TickIOs == IOs \cup {"stat0fail"}

\* newModel on the file f
newModel(f) ==
    LET r == loadLines(f, "ok")
    IN  [lines |-> r.lines, cursor |-> 0, mode |-> modeNormal, draft |-> <<>>,
         editIntent |-> editIntentNone, editTarget |-> editTargetTask,
         editIndex |-> -1, insertIndex |-> 0,
         editTemplate |-> defaultTaskTemplate(r.lines),
         statusMessage |-> "", err |-> errNone,
         lastModifiedAt |-> r.modTime, pendingReload |-> FALSE,
         selectionActive |-> FALSE, selectionAnchor |-> 0,
         externalEditIdx |-> -1,
         undoStack |-> <<>>, redoStack |-> <<>>, pendingD |-> FALSE]

\* model{}, the value main is left with when newModel fails or is not reached
zeroModel ==
    [lines |-> <<>>, cursor |-> 0, mode |-> modeNormal, draft |-> <<>>,
     editIntent |-> editIntentNone, editTarget |-> editTargetTask,
     editIndex |-> 0, insertIndex |-> 0,
     editTemplate |-> [Indent |-> <<>>, Bullet |-> ""],
     statusMessage |-> "", err |-> errNone,
     lastModifiedAt |-> zeroTime, pendingReload |-> FALSE,
     selectionActive |-> FALSE, selectionAnchor |-> 0,
     externalEditIdx |-> 0,
     undoStack |-> <<>>, redoStack |-> <<>>, pendingD |-> FALSE]

\* main that does not test the path it is given
main_noCheck(arg, f, io) ==
    IF loadLines(f, io).err # errNone THEN [exited |-> TRUE, m |-> zeroModel]
    ELSE [exited |-> FALSE, m |-> newModel(f)]

\* main: arg is "none" (todo.md is used) or "explicit" (a path is given); io
\* is the outcome of the system calls of the startup
main(arg, f, io) ==
    IF arg = "explicit" /\ (~f.exists \/ io = "stat0fail") THEN [exited |-> TRUE, m |-> zeroModel]
    ELSE IF loadLines(f, io).err # errNone THEN [exited |-> TRUE, m |-> zeroModel]
    ELSE [exited |-> FALSE, m |-> newModel(f)]

InitOn(files, depth, follow, tab) ==
    /\ file \in files
    /\ m = newModel(file)
    /\ now = 1
    /\ editor = FALSE
    /\ exited = FALSE
    /\ g = [d0 |-> IF follow THEN m.lines ELSE <<>>, nops |-> 0, follow |-> follow,
            start |-> <<>>, last |-> "", op |-> FALSE, evicted |-> FALSE, depth |-> depth,
            tab |-> tab, sel |-> FALSE, arg |-> "none",
            track |-> FALSE, live |-> 0, ua |-> <<>>, ra |-> <<>>, cap |-> MaxDraft,
            watch |-> FALSE, ext |-> <<>>, own |-> FALSE, saved |-> FALSE, dreload |-> FALSE]

\* the arrays in use: the one under m.lines and those under the frames
usedArrays == {g.live} \cup {g.ua[k] : k \in 1..Len(g.ua)} \cup {g.ra[k] : k \in 1..Len(g.ra)}

\* make([]lineItem, n): the address of an array no slice refers to
newArray == CHOOSE n \in 0..Cardinality(usedArrays) :
                n \notin usedArrays /\ \A k \in 0..(n - 1) : k \in usedArrays

\* copyLines handing back the array it was given
copyArray_alias(a) == a

\* the array copyLines makes: the address of the copy of the array a
copyArray(a) == newArray

\* the arrays under m.lines and under the frames of the two stacks after a
\* step to the model m2; ev is the key or the message handled. saveUndoState,
\* undo and redo put a copy of the lines on a stack, undo and redo hand the
\* array of the frame they pop to m.lines, a load makes a new array, and every
\* other change of the lines is made in the array m.lines has.
arraysNext(kind, ev, m2) ==
    LET same == [live |-> g.live, ua |-> g.ua, ra |-> g.ra]
    IN  IF ~g.track THEN same
        ELSE IF kind = "op" /\ m2.undoStack # m.undoStack
        THEN LET pushed == Append(g.ua, copyArray(g.live))
             IN  [live |-> g.live,
                  ua |-> IF Len(pushed) > maxUndoHistory THEN Tail(pushed) ELSE pushed,
                  ra |-> <<>>]
        ELSE IF m.mode = modeNormal /\ ev = "u" /\ Len(m.undoStack) > 0
        THEN [live |-> g.ua[Len(g.ua)],
              ua |-> SubSeq(g.ua, 1, Len(g.ua) - 1),
              ra |-> Append(g.ra, copyArray(g.live))]
        ELSE IF m.mode = modeNormal /\ ev = "ctrl+r" /\ Len(m.redoStack) > 0
        THEN [live |-> g.ra[Len(g.ra)],
              ua |-> Append(g.ua, copyArray(g.live)),
              ra |-> SubSeq(g.ra, 1, Len(g.ra) - 1)]
        ELSE IF \/ m.mode = modeNormal /\ ev = "r" /\ m2.err = errNone
                \/ ev = "tick" /\ m2.lastModifiedAt # m.lastModifiedAt
        THEN [live |-> newArray, ua |-> g.ua, ra |-> g.ra]
        ELSE same

\* the history g after a step to the model m2; kind is "op" for a delete or a
\* commit, "abandon" for leaving a draft without a commit, "other" otherwise.
\* A run of more than MaxOps operations is followed from its last MaxOps.
gNext(kind, key, ev, m2) ==
    LET fresh == [d0 |-> m2.lines, nops |-> 0]
        same == [d0 |-> g.d0, nops |-> g.nops]
        hist == IF ~g.follow THEN same
                ELSE IF kind = "op"
                THEN IF g.nops < MaxOps THEN [d0 |-> g.d0, nops |-> g.nops + 1]
                     ELSE [d0 |-> IF m.mode = modeEdit THEN g.start ELSE m.lines, nops |-> 1]
                ELSE IF kind = "abandon"
                THEN IF m.lines # g.start THEN fresh ELSE same
                ELSE IF m2.mode = modeEdit
                        \/ (m2.lines = m.lines /\ m2.undoStack = m.undoStack /\ m2.redoStack = m.redoStack)
                THEN same
                ELSE fresh
    IN  [d0 |-> hist.d0, nops |-> hist.nops, follow |-> g.follow,
         start |-> IF m2.mode # modeEdit THEN <<>>
                   ELSE IF m.mode = modeEdit /\ kind # "op" THEN g.start
                   ELSE m2.lines,
         last |-> key,
         op |-> kind = "op",
         evicted |-> /\ kind = "op"
                     /\ Len(m.undoStack) = maxUndoHistory
                     /\ m2.undoStack = Append(Tail(m.undoStack), undoStateOf(m)),
         depth |-> g.depth,
         tab |-> g.tab,
         sel |-> m.selectionActive,
         arg |-> g.arg,
         track |-> g.track,
         live |-> arraysNext(kind, ev, m2).live,
         ua |-> arraysNext(kind, ev, m2).ua,
         ra |-> arraysNext(kind, ev, m2).ra,
         cap |-> g.cap,
         watch |-> g.watch,
         ext |-> IF ~g.watch THEN <<>>
                 ELSE IF ev = "e" /\ m.mode = modeNormal
                 THEN (IF InRange(m2.lines, m2.externalEditIdx)
                       THEN <<At(m2.lines, m2.externalEditIdx)>> ELSE <<>>)
                 ELSE IF ev = "editor" THEN <<>>
                 ELSE g.ext,
         own |-> g.own,
         saved |-> IF ~g.watch THEN FALSE
                   ELSE IF kind = "op" /\ m2.err = errNone THEN TRUE
                   ELSE g.saved,
         dreload |-> IF ev = "tick" /\ m.pendingD /\ m2.lines # m.lines THEN TRUE
                     ELSE IF m2.pendingD \/ (kind = "op" /\ m.mode = modeNormal) THEN g.dreload
                     ELSE FALSE]

\* the session is followed while its history fits
HistCap(mm) == Len(mm.undoStack) + Len(mm.redoStack) <= g.depth

\* whether the file is as a save that succeeded has left it: a delete or a
\* commit whose save succeeds makes it so, a write of the program whose save
\* fails (the os.Stat after the write) ends it
ownNext(kind, st2) ==
    LET wrote == st2.file # file
    IN  IF ~g.watch THEN FALSE
        ELSE IF (kind = "op" \/ wrote) /\ st2.m.err = errNone THEN TRUE
        ELSE IF wrote THEN FALSE
        ELSE g.own

StepEv(st2, kind, key, ev) ==
    /\ ~exited
    /\ HistCap(st2.m)
    /\ UNCHANGED exited
    /\ m' = st2.m
    /\ file' = st2.file
    /\ g' = [gNext(kind, key, ev, st2.m) EXCEPT !.own = ownNext(kind, st2)]

StepKey(st2, kind, key) == StepEv(st2, kind, key, key)

Step(st2, kind) == StepKey(st2, kind, "")

\* a key handled by handleNormalKey
NormalKey(key, io) ==
    /\ m.mode = modeNormal
    /\ LET st2 == handleNormalKey(St, key, io, now)
           deleted == m.pendingD /\ key = "d" /\ Len(m.lines) > 0
       IN  StepEv(st2, IF deleted THEN "op" ELSE "other", "", key)
    /\ UNCHANGED <<now, editor>>

KeyEsc == NormalKey("esc", "ok")
KeyDown == NormalKey("j", "ok")
KeyUp == NormalKey("k", "ok")
KeyFirst == NormalKey("g", "ok")
KeyLast == NormalKey("G", "ok")
KeyD(io) == NormalKey("d", io)
KeyUndo(io) == NormalKey("u", io)
KeyRedo(io) == NormalKey("ctrl+r", io)
KeyToggle(io) == NormalKey("enter", io)
KeyVisual == NormalKey("V", "ok")
KeyEditCurrent == NormalKey("i", "ok")
KeyInsertBelow == NormalKey("o", "ok")
KeyInsertAbove == NormalKey("O", "ok")
KeyInsertSection == NormalKey("S", "ok")
KeyReload(io) == NormalKey("r", io)
\* a key handleNormalKey has no case for
KeyOther == NormalKey("x", "ok")

\* "e": the program hands the terminal to the editor; its completion message
\* arrives as a later event
KeyExternalEdit(io) ==
    /\ m.mode = modeNormal
    /\ ~editor
    /\ StepEv(handleNormalKey(St, "e", io, now), "other", "", "e")
    /\ editor' = startExternalEdit(m, io).spawned
    /\ UNCHANGED now

EditorFinished(res, io) ==
    /\ editor
    /\ StepKey(handleEditorFinished(St, res, io, now), "other", "editor")
    /\ editor' = FALSE
    /\ UNCHANGED now

\* the draft commits an insert only while the document has room in the model
CommitAllowed ==
    (TrimSpace(m.draft) # <<>> /\ m.editIntent = editIntentInsert) => Len(m.lines) < MaxLen

CommitKind == IF TrimSpace(m.draft) # <<>> THEN "op" ELSE "abandon"

\* the Esc key of the edit mode leaving the draft without a commit
EditEsc_discard(io) ==
    /\ m.mode = modeEdit
    /\ CommitAllowed
    /\ StepKey([m |-> exitEditMode(m), file |-> file], CommitKind, "esc")
    /\ UNCHANGED <<now, editor>>

EditEsc(io) ==
    /\ m.mode = modeEdit
    /\ CommitAllowed
    /\ StepKey(editKeyEsc(St, io, now), CommitKind, "esc")
    /\ UNCHANGED <<now, editor>>

EditEnter(io) ==
    /\ m.mode = modeEdit
    /\ CommitAllowed
    /\ StepKey(editKeyEnter(St, io, now), CommitKind, "enter")
    /\ UNCHANGED <<now, editor>>

EditTab ==
    /\ m.mode = modeEdit
    /\ getIndentLevel(currentIndent(m)) < g.tab
    /\ Step(editKeyTab(St, 1), "other")
    /\ UNCHANGED <<now, editor>>

EditShiftTab ==
    /\ m.mode = modeEdit
    /\ Step(editKeyTab(St, -1), "other")
    /\ UNCHANGED <<now, editor>>

EditRune(c) ==
    /\ m.mode = modeEdit
    /\ Len(m.draft) < g.cap
    /\ Step(editKeyRune(St, c), "other")
    /\ UNCHANGED <<now, editor>>

EditBackspace ==
    /\ m.mode = modeEdit
    /\ Step(editKeyBackspace(St), "other")
    /\ UNCHANGED <<now, editor>>

\* fileCheckMsg handled as if the file had never been read or written
Tick_ignoreTime(io) ==
    /\ StepKey([m |-> [handleFileCheck([m EXCEPT !.lastModifiedAt = zeroTime], file, io)
                          EXCEPT !.lastModifiedAt = IF @ = zeroTime THEN m.lastModifiedAt ELSE @],
                file |-> file], "other", "tick")
    /\ UNCHANGED <<now, editor>>

\* fileCheckMsg
Tick(io) ==
    /\ StepKey([m |-> handleFileCheck(m, file, io), file |-> file], "other", "tick")
    /\ UNCHANGED <<now, editor>>

\* time passes
ClockTick ==
    /\ now < MaxClock
    /\ now' = now + 1
    /\ g' = [g EXCEPT !.last = "", !.op = FALSE, !.evicted = FALSE, !.sel = FALSE]
    /\ UNCHANGED <<m, file, editor, exited>>

\* another program writes the file
ExternalWrite(c) ==
    /\ file' = [exists |-> TRUE, content |-> c, mtime |-> now]
    /\ g' = [g EXCEPT !.last = "", !.op = FALSE, !.evicted = FALSE, !.sel = FALSE, !.own = FALSE, !.saved = FALSE]
    /\ UNCHANGED <<m, now, editor, exited>>

(***************************************************************************)
(* Specifications.  Each explores the events one concern needs, on the     *)
(* same actions.                                                           *)
(***************************************************************************)
TaskFile == [exists |-> TRUE, content |-> <<"-", " ", "[", " ", "]", " ", "a", "\n">>, mtime |-> 1]
NoFile == [exists |-> FALSE, content |-> <<>>, mtime |-> zeroTime]
SectionsFile ==
    [exists |-> TRUE, content |-> <<"#", "#", " ", "s", "\n", "#", "#", " ", "s", "\n">>, mtime |-> 1]

\* the edit session: drafts, commits and indentation
Init == InitOn({TaskFile}, MaxHist, FALSE, MaxIndent)

Next ==
    \/ KeyDown
    \/ KeyEditCurrent \/ KeyInsertBelow \/ KeyInsertSection
    \/ EditEsc("ok")
    \/ EditEnter("ok")
    \/ EditTab \/ EditBackspace
    \/ EditRune("a") \/ EditRune(" ")

Spec == Init /\ [][Next]_vars

\* the undo and redo history of a short session, with a reload of a file
\* another program has emptied
InitUndo == InitOn({TaskFile}, MaxHist, FALSE, MaxIndent)

NextUndo ==
    \/ KeyDown
    \/ KeyEditCurrent \/ KeyInsertSection
    \/ KeyD("ok")
    \/ KeyUndo("ok")
    \/ KeyRedo("ok")
    \/ EditEsc("ok")
    \/ EditEnter("ok")
    \/ EditRune("a")
    \/ KeyReload("ok")
    \/ ExternalWrite(<<>>)

SpecUndo == InitUndo /\ [][NextUndo]_vars

\* runs of mutating operations, followed from the document they start on
InitRun == InitOn({TaskFile}, MaxHist, TRUE, MaxIndent)

NextRun ==
    \/ KeyDown
    \/ KeyEditCurrent \/ KeyInsertBelow \/ KeyInsertSection
    \/ KeyD("ok")
    \/ KeyUndo("ok")
    \/ KeyRedo("ok")
    \/ EditEsc("ok")
    \/ EditEnter("ok")
    \/ EditRune("a")

SpecRun == InitRun /\ [][NextRun]_vars

\* a long history: two sections, retitled and deleted until the stack is full
InitHistory == InitOn({SectionsFile}, maxUndoHistory, FALSE, MaxIndent)

NextHistory ==
    \/ KeyDown
    \/ KeyEditCurrent
    \/ EditEnter("ok")
    \/ KeyD("ok")
    \/ KeyUndo("ok")
    \/ KeyRedo("ok")

SpecHistory == InitHistory /\ [][NextHistory]_vars

\* the reconciliation with the disk
InitSync == InitOn({NoFile, TaskFile}, MaxHist, FALSE, MaxIndent)

NextSync ==
    \/ KeyEditCurrent \/ KeyInsertBelow
    \/ \E io \in IOs : EditEsc(io)
    \/ \E io \in IOs : EditEnter(io)
    \/ EditRune("a")
    \/ \E io \in IOs : KeyReload(io)
    \/ \E io \in TickIOs : Tick(io)
    \/ ClockTick
    \/ \E c \in ExternalContents : ExternalWrite(c)

SpecSync == InitSync /\ [][NextSync]_vars

\* reloads under a selection: two lines on disk, rewritten by other programs
InitReload == InitOn({SectionsFile}, MaxHist, FALSE, MaxIndent)

NextReload ==
    \/ KeyDown
    \/ KeyVisual
    \/ KeyEditCurrent
    \/ \E io \in IOs : EditEsc(io)
    \/ \E io \in IOs : KeyD(io)
    \/ \E io \in IOs : KeyReload(io)
    \/ \E io \in TickIOs : Tick(io)
    \/ ClockTick
    \/ \E c \in ExternalContents \cup {<<>>} : ExternalWrite(c)

SpecReload == InitReload /\ [][NextReload]_vars

\* the selection: a section between two tasks, toggled, edited and deleted
MixedFile ==
    [exists |-> TRUE,
     content |-> <<"-", " ", "[", " ", "]", " ", "a", "\n",
                   "#", "#", " ", "s", "\n",
                   "-", " ", "[", "x", "]", " ", "a", "\n">>,
     mtime |-> 1]

InitSelect == InitOn({MixedFile}, MaxHist, FALSE, MaxIndent)

NextSelect ==
    \/ KeyDown \/ KeyUp
    \/ KeyVisual
    \/ KeyEsc
    \/ KeyToggle("ok")
    \/ KeyD("ok")
    \/ KeyEditCurrent \/ KeyInsertBelow \/ KeyInsertSection
    \/ EditEsc("ok")

SpecSelect == InitSelect /\ [][NextSelect]_vars

\* the line grammar: one line item of any shape in memory, written to the
\* disk by the save of a toggle and read back by a reload
Texts == UNION {[1..k -> Runes] : k \in 0..MaxText}
Indents == {<<>>, <<" ">>, <<"\t">>, Spaces(4)}
Items ==
    {TaskItem(Task(i, b, c, t)) : i \in Indents, b \in {"-", "*"}, c \in BOOLEAN, t \in Texts}
        \cup {SectionItem(t) : t \in Texts}

InitGrammar ==
    /\ file = NoFile
    /\ \E x \in Items : m = [newModel(NoFile) EXCEPT !.lines = <<x>>]
    /\ now = 1
    /\ editor = FALSE
    /\ exited = FALSE
    /\ g = [d0 |-> <<>>, nops |-> 0, follow |-> FALSE,
            start |-> <<>>, last |-> "", op |-> FALSE, evicted |-> FALSE, depth |-> MaxHist,
            tab |-> MaxIndent, sel |-> FALSE, arg |-> "none",
            track |-> FALSE, live |-> 0, ua |-> <<>>, ra |-> <<>>, cap |-> MaxDraft,
            watch |-> FALSE, ext |-> <<>>, own |-> FALSE, saved |-> FALSE, dreload |-> FALSE]

NextGrammar ==
    \/ KeyToggle("ok")
    \/ KeyReload("ok")

SpecGrammar == InitGrammar /\ [][NextGrammar]_vars

\* indentation: a task file whose only line opens with a canonical or a
\* non-canonical indent, edited in place or used as the insert template;
\* Tab is tried at every level, the deepest included
IndentFile(indent) ==
    [exists |-> TRUE, content |-> indent \o <<"-", " ", "[", " ", "]", " ", "a", "\n">>, mtime |-> 1]

IndentFiles == {IndentFile(i) : i \in {<<>>, <<" ">>, <<"\t">>, Spaces(13)}}

InitIndent == InitOn(IndentFiles, MaxHist, FALSE, Len(indentLevels))

NextIndent ==
    \/ KeyEditCurrent \/ KeyInsertBelow
    \/ EditTab \/ EditShiftTab
    \/ EditRune("a")
    \/ EditEsc("ok")

SpecIndent == InitIndent /\ [][NextIndent]_vars

\* every kind of event interleaved: keys of both modes, the external editor
\* and its completion, undo and redo, and the ticks that reload a file
\* another program has emptied
TwoKindsFile ==
    [exists |-> TRUE,
     content |-> <<"-", " ", "[", " ", "]", " ", "a", "\n", "#", "#", " ", "s", "\n">>,
     mtime |-> 1]

InitAccess == InitOn({TwoKindsFile}, MaxHist, FALSE, MaxIndent)

NextAccess ==
    \/ KeyDown
    \/ KeyVisual
    \/ KeyD("ok")
    \/ KeyUndo("ok") \/ KeyRedo("ok")
    \/ KeyEditCurrent \/ KeyInsertBelow
    \/ KeyExternalEdit("ok")
    \/ EditorFinished(<<"text", <<"c", "\n">>>>, "ok")
    \/ EditEsc("ok") \/ EditEnter("ok")
    \/ EditRune("a")
    \/ Tick("ok")
    \/ ClockTick
    \/ ExternalWrite(<<>>)

SpecAccess == InitAccess /\ [][NextAccess]_vars

\* loading: files of one or two lines, some of which match neither pattern,
\* loaded at startup and by 'r', and written back by a toggle or a delete
LinePool ==
    { <<"-", " ", "[", " ", "]", " ", "a">>,
      <<"#", "#", " ", "s">>,
      <<"n", "o", "t", "e">>,
      <<"-", "[", " ", "]", " ", "a">>,
      <<" ", "#", "#", " ", "s">>,
      <<"-", " ", "[", "]", " ", "a">> }

PoolFile(ls) == [exists |-> TRUE, content |-> ls, mtime |-> 1]

PoolFiles ==
    {PoolFile(a \o <<"\n">>) : a \in LinePool}
        \cup {PoolFile(a \o <<"\n">> \o b \o <<"\n">>) : a \in LinePool, b \in LinePool}

InitLoad == InitOn(PoolFiles, MaxHist, FALSE, MaxIndent)

NextLoad ==
    \/ KeyDown
    \/ KeyToggle("ok")
    \/ KeyD("ok")
    \/ KeyReload("ok")
    \/ ExternalWrite(<<"n", "o", "t", "e", "\n", "*", " ", "[", "x", "]", " ", "b", "\n">>)

SpecLoad == InitLoad /\ [][NextLoad]_vars

\* the startup: with or without a path argument, on a file that is absent
\* or holds two sections, and the first drafts that follow
InitStart ==
    /\ file \in {NoFile, SectionsFile}
    /\ now = 1
    /\ editor = FALSE
    /\ \E arg \in {"none", "explicit"}, io \in TickIOs :
          /\ exited = main(arg, file, io).exited
          /\ m = main(arg, file, io).m
          /\ g = [d0 |-> <<>>, nops |-> 0, follow |-> FALSE,
                  start |-> <<>>, last |-> "", op |-> FALSE, evicted |-> FALSE, depth |-> MaxHist,
                  tab |-> MaxIndent, sel |-> FALSE, arg |-> arg,
                  track |-> FALSE, live |-> 0, ua |-> <<>>, ra |-> <<>>, cap |-> MaxDraft,
            watch |-> FALSE, ext |-> <<>>, own |-> FALSE, saved |-> FALSE, dreload |-> FALSE]

NextStart ==
    \/ KeyDown
    \/ KeyInsertBelow
    \/ EditRune("a")
    \/ \E io \in IOs : EditEnter(io)
    \/ \E io \in IOs : EditEsc(io)
    \/ \E io \in TickIOs : Tick(io)
    \/ ClockTick

SpecStart == InitStart /\ [][NextStart]_vars

\* inserts and updates: drafts opened below, above and on the cursor, of
\* tasks and of sections, on no file, on one task, and on two tasks of
\* different bullets before a section
BulletsFile ==
    [exists |-> TRUE,
     content |-> <<"-", " ", "[", " ", "]", " ", "a", "\n",
                   "\t", "*", " ", "[", "x", "]", " ", "a", "\n",
                   "#", "#", " ", "s", "\n">>,
     mtime |-> 1]

InitInsert == InitOn({NoFile, TaskFile, BulletsFile}, MaxHist, FALSE, MaxIndent)

NextInsert ==
    \/ KeyDown
    \/ KeyInsertBelow \/ KeyInsertAbove \/ KeyInsertSection
    \/ KeyEditCurrent
    \/ EditRune("a") \/ EditBackspace
    \/ EditEsc("ok") \/ EditEnter("ok")

SpecInsert == InitInsert /\ [][NextInsert]_vars

\* a selection carried across deletes, inserts, undo, redo and reloads of a
\* file another program has shortened
OneTaskContent == <<"-", " ", "[", "x", "]", " ", "b", "\n">>

InitRange == InitOn({TwoKindsFile}, MaxHist, FALSE, MaxIndent)

NextRange ==
    \/ KeyDown \/ KeyUp
    \/ KeyVisual
    \/ KeyEsc
    \/ KeyD("ok")
    \/ KeyUndo("ok")
    \/ KeyRedo("ok")
    \/ KeyInsertBelow
    \/ EditRune("a")
    \/ EditEsc("ok")
    \/ EditEnter("ok")
    \/ KeyReload("ok")
    \/ ExternalWrite(OneTaskContent)

SpecRange == InitRange /\ [][NextRange]_vars

\* the external editor: its start, the events handled before its completion
\* message, and its completion with every result
InitEditor ==
    /\ file \in {NoFile, TwoKindsFile}
    /\ m = newModel(file)
    /\ now = 1
    /\ editor = FALSE
    /\ exited = FALSE
    /\ g = [d0 |-> <<>>, nops |-> 0, follow |-> FALSE,
            start |-> <<>>, last |-> "", op |-> FALSE, evicted |-> FALSE, depth |-> MaxHist,
            tab |-> MaxIndent, sel |-> FALSE, arg |-> "none",
            track |-> FALSE, live |-> 0, ua |-> <<>>, ra |-> <<>>, cap |-> MaxDraft + 1,
            watch |-> TRUE, ext |-> <<>>, own |-> FALSE, saved |-> FALSE, dreload |-> FALSE]

NextEditor ==
    \/ KeyDown
    \/ KeyEditCurrent
    \/ EditRune("a")
    \/ EditEsc("ok")
    \/ \E io \in {"ok", "fail"} : KeyExternalEdit(io)
    \/ \E res \in EditorResults : EditorFinished(res, "ok")
    \/ Tick("ok")
    \/ ClockTick
    \/ ExternalWrite(OneTaskContent)

SpecEditor == InitEditor /\ [][NextEditor]_vars

\* the arrays of the lines and of the frames, followed through deletes,
\* section edits, toggles, indent changes, undo, redo and reloads
InitFrames ==
    /\ file = TwoKindsFile
    /\ m = newModel(file)
    /\ now = 1
    /\ editor = FALSE
    /\ exited = FALSE
    /\ g = [d0 |-> <<>>, nops |-> 0, follow |-> FALSE,
            start |-> <<>>, last |-> "", op |-> FALSE, evicted |-> FALSE, depth |-> MaxHist + 1,
            tab |-> MaxIndent, sel |-> FALSE, arg |-> "none",
            track |-> TRUE, live |-> 0, ua |-> <<>>, ra |-> <<>>, cap |-> MaxDraft,
            watch |-> FALSE, ext |-> <<>>, own |-> FALSE, saved |-> FALSE, dreload |-> FALSE]

NextFrames ==
    \/ KeyDown
    \/ KeyToggle("ok")
    \/ KeyD("ok")
    \/ KeyUndo("ok")
    \/ KeyRedo("ok")
    \/ KeyEditCurrent
    \/ EditBackspace
    \/ EditTab
    \/ EditEsc("ok")
    \/ KeyReload("ok")

SpecFrames == InitFrames /\ [][NextFrames]_vars

\* texts and titles typed with blanks in them, saved and read back
InitRound ==
    /\ file \in {NoFile, TaskFile}
    /\ m = newModel(file)
    /\ now = 1
    /\ editor = FALSE
    /\ exited = FALSE
    /\ g = [d0 |-> <<>>, nops |-> 0, follow |-> FALSE,
            start |-> <<>>, last |-> "", op |-> FALSE, evicted |-> FALSE, depth |-> MaxHist,
            tab |-> MaxIndent, sel |-> FALSE, arg |-> "none",
            track |-> FALSE, live |-> 0, ua |-> <<>>, ra |-> <<>>, cap |-> MaxDraft + 1,
            watch |-> FALSE, ext |-> <<>>, own |-> FALSE, saved |-> FALSE, dreload |-> FALSE]

NextRound ==
    \/ KeyDown
    \/ KeyInsertBelow
    \/ KeyInsertSection
    \/ KeyEditCurrent
    \/ EditRune("a")
    \/ EditRune(" ")
    \/ EditBackspace
    \/ EditEsc("ok")
    \/ EditEnter("ok")
    \/ KeyReload("ok")

SpecRound == InitRound /\ [][NextRound]_vars

\* the program's writes and the writes of other programs, with ticks between
InitOwn ==
    /\ file \in {NoFile, TaskFile}
    /\ m = newModel(file)
    /\ now = 1
    /\ editor = FALSE
    /\ exited = FALSE
    /\ g = [d0 |-> <<>>, nops |-> 0, follow |-> FALSE,
            start |-> <<>>, last |-> "", op |-> FALSE, evicted |-> FALSE, depth |-> MaxHist,
            tab |-> MaxIndent, sel |-> FALSE, arg |-> "none",
            track |-> FALSE, live |-> 0, ua |-> <<>>, ra |-> <<>>, cap |-> MaxDraft,
            watch |-> TRUE, ext |-> <<>>, own |-> FALSE, saved |-> FALSE, dreload |-> FALSE]

NextOwn ==
    \/ KeyEditCurrent \/ KeyInsertBelow
    \/ \E io \in IOs : EditEsc(io)
    \/ \E io \in IOs : EditEnter(io)
    \/ EditRune("a")
    \/ \E io \in IOs : KeyD(io)
    \/ \E io \in TickIOs : Tick(io)
    \/ ClockTick
    \/ \E c \in ExternalContents : ExternalWrite(c)

SpecOwn == InitOwn /\ [][NextOwn]_vars

\* the file watcher over time, with another program that empties the file:
\* Init and every fileCheckMsg arm the timer of the next one, so a tick that
\* stays possible is handled in the end
InitLive == InitOn({TaskFile}, MaxHist, FALSE, MaxIndent)

NextLive ==
    \/ KeyDown
    \/ KeyEditCurrent
    \/ KeyInsertBelow
    \/ EditRune("a")
    \/ EditBackspace
    \/ EditEsc("ok")
    \/ KeyD("ok")
    \/ Tick("ok")
    \/ ClockTick
    \/ ExternalWrite(<<>>)

\* the watcher whose timer is not armed again
SpecLive_unarmed == InitLive /\ [][NextLive]_vars

SpecLive == InitLive /\ [][NextLive]_vars /\ WF_vars(Tick("ok"))

(***************************************************************************)
(* Properties.                                                             *)
(***************************************************************************)
Blank(s) == TrimSpace(s) = <<>>

\* a step that commits a non-blank draft, and a step that deletes a line
Commit == \E io \in IOs : (EditEnter(io) \/ EditEsc(io)) /\ ~Blank(m.draft)
Delete == \E io \in IOs : KeyD(io) /\ m.pendingD /\ Len(m.lines) > 0
DraftKey == EditTab \/ EditShiftTab \/ EditBackspace \/ \E c \in Runes : EditRune(c)

\* the document a mutating step starts from: a commit lands what the draft
\* has changed since it was opened
DocBefore == IF m.mode = modeEdit THEN g.start ELSE m.lines

CursorInLines(mm) ==
    IF Len(mm.lines) = 0 THEN mm.cursor = 0 ELSE mm.cursor >= 0 /\ mm.cursor <= Len(mm.lines) - 1

\* a stack of at most 10 frames after the push of f
pushFrame(stack, f) ==
    IF Len(stack) >= maxUndoHistory THEN Append(Tail(stack), f) ELSE Append(stack, f)

Top(stack) == stack[Len(stack)]

RECURSIVE undoTimes(_, _)
undoTimes(mm, n) == IF n = 0 THEN mm ELSE undoTimes(undo(mm), n - 1)

\* C1: after a run of n <= 10 mutating operations (deletes and commits) on a
\* document d0, n undos give back d0.
C1_UndoRestoresDocument ==
    (m.mode = modeNormal /\ g.nops >= 1 /\ g.nops <= maxUndoHistory)
        => undoTimes(m, g.nops).lines = g.d0

\* C2: every delete and every commit pushes exactly one frame, holding the
\* document and the cursor from before the mutation; a key of the draft
\* pushes none.
C2_OneFramePerMutation ==
    [][ /\ (Commit \/ Delete) =>
              m'.undoStack = pushFrame(m.undoStack, [lines |-> DocBefore, cursor |-> m.cursor])
        /\ DraftKey => m'.undoStack = m.undoStack ]_vars

\* the two keys u, ctrl+r handled one after the other
undoThenRedo(io1, io2) ==
    handleNormalKey(handleNormalKey(St, "u", io1, now), "ctrl+r", io2, now).m

clampFrame(f) == [lines |-> f.lines, cursor |-> clampCursor(f.cursor, Len(f.lines))]

\* C3: in Normal mode with a frame to undo, undo then redo gives back the
\* document and the cursor, and the undo stack holds the frames it held,
\* the cursor of the top one clamped into its snapshot.
C3_UndoRedoRestores ==
    (m.mode = modeNormal /\ Len(m.undoStack) > 0) =>
        \A io1, io2 \in IOs :
            LET r == undoThenRedo(io1, io2)
            IN  /\ r.lines = m.lines
                /\ r.cursor = m.cursor
                /\ r.undoStack = Append(SubSeq(m.undoStack, 1, Len(m.undoStack) - 1),
                                        clampFrame(Top(m.undoStack)))

\* C3 as stated: the undo stack holds exactly the frames it held.
C3_Original ==
    (m.mode = modeNormal /\ Len(m.undoStack) > 0) =>
        \A io1, io2 \in IOs :
            LET r == undoThenRedo(io1, io2)
            IN  r.lines = m.lines /\ r.cursor = m.cursor /\ r.undoStack = m.undoStack

\* an undo and a redo have just brought back a section inserted at the end:
\* the frame on top was recorded with the cursor past its last line
C3_Witness ==
    /\ m.mode = modeNormal
    /\ m.statusMessage = "Redo"
    /\ Len(m.undoStack) > 0
    /\ Len(m.lines) = Len(Top(m.undoStack).lines) + 1
    /\ Len(m.lines) > 1
    /\ m.cursor = Len(m.lines) - 1
    /\ At(m.lines, m.cursor).Kind = lineSection
    /\ Top(m.undoStack).cursor = m.cursor - 1

C5_MutationClearsRedo ==
    [][ (Commit \/ Delete) => m'.redoStack = <<>> ]_vars

\* C6: in Normal mode the cursor is in [0, len-1], 0 on the empty document;
\* while Editing it is in [0, len], and at len only for an insert at the end.
C6_CursorInBounds ==
    /\ m.mode = modeNormal => CursorInLines(m)
    /\ m.mode = modeEdit =>
          /\ m.cursor >= 0 /\ m.cursor <= Len(m.lines)
          /\ (m.cursor = Len(m.lines) /\ Len(m.lines) > 0) => m.editIntent = editIntentInsert

\* C6 as stated: the cursor is in [0, len-1] in every state, Editing included.
C6_Original == CursorInLines(m)

\* Enter has committed a task and goes on with an insert below the last line
C6_Witness ==
    /\ m.mode = modeEdit
    /\ g.last = "enter"
    /\ g.op
    /\ m.editIntent = editIntentInsert
    /\ Len(m.lines) > 0
    /\ m.cursor = Len(m.lines)

\* the lines without their indentation
sansIndent(lines) == [i \in 1..Len(lines) |-> [lines[i] EXCEPT !.Task.Indent = <<>>]]

C8_BlankEnterIsNoOp ==
    [][ ((\E io \in IOs : EditEnter(io)) /\ Blank(m.draft)) =>
            /\ m'.lines = g.start
            /\ file' = file
            /\ m'.undoStack = m.undoStack
            /\ m'.mode = modeNormal ]_vars

\* C9: a commit whose save succeeds leaves the file equal to the serialized
\* document, and lastModifiedAt equal to the time of the file.
C9_CommitSaves ==
    [][ (Commit /\ m'.err = errNone) =>
            /\ file'.exists
            /\ file'.content = serialize(m'.lines)
            /\ m'.lastModifiedAt = file'.mtime ]_vars

\* a commit has saved the document after the clock has moved on: the file and
\* lastModifiedAt carry the time of that write
C9_Witness ==
    /\ g.last \in {"esc", "enter"}
    /\ g.op
    /\ m.err = errNone
    /\ file.content = serialize(m.lines)
    /\ m.lastModifiedAt = file.mtime
    /\ m.lastModifiedAt > 1

\* a tick whose os.Stat succeeds
TickStatOk == \E io \in IOs : Tick(io)

\* C10: while Editing, a tick that finds the file newer than lastModifiedAt
\* sets pendingReload and nothing else; no step of an edit other than a
\* commit changes the length of the document.
C10_TickDefersWhileEditing ==
    /\ [][ (TickStatOk /\ m.mode = modeEdit /\ file.exists /\ file.mtime > m.lastModifiedAt)
             => m' = [m EXCEPT !.pendingReload = TRUE] ]_vars
    /\ [][ (m.mode = modeEdit /\ ~Commit) => Len(m'.lines) = Len(m.lines) ]_vars

\* a tick has deferred the reload of a newer file under a draft in progress
C10_Witness ==
    /\ m.mode = modeEdit
    /\ m.pendingReload
    /\ m.draft # <<>>
    /\ file.mtime > m.lastModifiedAt
    /\ parseContent(file.content) # m.lines

\* the anchor of an active selection is a line of the document
AnchorInLines(mm) ==
    mm.selectionActive =>
        Len(mm.lines) > 0 /\ mm.selectionAnchor >= 0 /\ mm.selectionAnchor <= Len(mm.lines) - 1

\* C11: in Normal mode a tick that finds the file newer than lastModifiedAt
\* and reads it loads the parse of the file, takes the time of the file,
\* clamps the cursor, keeps the selection only on a non-empty document with
\* its anchor in bounds, and leaves pendingReload false.
C11_TickReloadsWhenNormal ==
    [][ (Tick("ok") /\ m.mode = modeNormal /\ file.exists /\ file.mtime > m.lastModifiedAt) =>
            /\ m'.lines = parseContent(file.content)
            /\ m'.lastModifiedAt = file.mtime
            /\ m'.cursor = clampCursor(m.cursor, Len(m'.lines))
            /\ CursorInLines(m')
            /\ m'.selectionActive = (m.selectionActive /\ Len(m'.lines) > 0)
            /\ AnchorInLines(m')
            /\ ~m.pendingReload /\ ~m'.pendingReload ]_vars

\* a tick has reloaded a shorter file under a selection that is still active
C11_Witness ==
    /\ g.last = "tick"
    /\ m.mode = modeNormal
    /\ m.statusMessage = "Reloaded from disk"
    /\ m.selectionActive
    /\ Len(m.lines) = 1
    /\ m.lastModifiedAt > 1

\* C12: a commit made while the file on disk is newer than lastModifiedAt
\* overwrites it when its save succeeds: the file is the serialized document
\* and lastModifiedAt its time; and a tick that finds the file no newer than
\* lastModifiedAt loads nothing.
C12_CommitOverwritesExternal ==
    /\ [][ (Commit /\ file.exists /\ file.mtime > m.lastModifiedAt /\ m'.err = errNone) =>
              /\ file'.content = serialize(m'.lines)
              /\ file'.mtime = now
              /\ m'.lastModifiedAt = file'.mtime ]_vars
    /\ [][ ((\E io \in TickIOs : Tick(io)) /\ file.exists /\ ~(file.mtime > m.lastModifiedAt)) =>
              /\ m'.lines = m.lines
              /\ m'.lastModifiedAt = m.lastModifiedAt ]_vars

\* Enter has committed over a file that a tick had seen change under the draft
C12_Witness ==
    /\ g.last = "enter"
    /\ g.op
    /\ m.pendingReload
    /\ m.err = errNone
    /\ file.content = serialize(m.lines)
    /\ m.lastModifiedAt = file.mtime

\* the lines the toggle applies to: the range between the anchor and the
\* cursor under a selection, the line of the cursor otherwise (1-based)
InToggleRange(i) ==
    IF m.selectionActive
    THEN \/ m.selectionAnchor + 1 <= i /\ i <= m.cursor + 1
         \/ m.cursor + 1 <= i /\ i <= m.selectionAnchor + 1
    ELSE i = m.cursor + 1

\* C13: the toggle inverts the completed flag of every task of the range,
\* or of the task under the cursor when nothing is selected; sections and
\* the lines outside keep their value, the document its length and order,
\* and the selection is inactive afterwards.
C13_ToggleFlipsTasksInRange ==
    [][ ((\E io \in IOs : KeyToggle(io)) /\ Len(m.lines) > 0) =>
            /\ Len(m'.lines) = Len(m.lines)
            /\ \A i \in 1..Len(m.lines) :
                  m'.lines[i] = IF InToggleRange(i) /\ m.lines[i].Kind = lineTask
                                THEN [m.lines[i] EXCEPT !.Task.Completed = ~m.lines[i].Task.Completed]
                                ELSE m.lines[i]
            /\ ~m'.selectionActive ]_vars

\* a selection over the two tasks and the section between them has been toggled
C13_Witness ==
    /\ m.statusMessage = "Toggled tasks"
    /\ ~m.selectionActive
    /\ Len(m.lines) = 3
    /\ m.lines[1].Kind = lineTask /\ m.lines[1].Task.Completed
    /\ m.lines[2] = SectionItem(<<"s">>)
    /\ m.lines[3].Kind = lineTask /\ ~m.lines[3].Task.Completed

\* C14: every line of the document is the parse of its own serialization.
C14_RoundTrip ==
    \A i \in 1..Len(m.lines) : parseLine(line(m.lines[i])) = <<m.lines[i]>>

\* C15: dd removes the line under the cursor and nothing else; the cursor
\* goes to the line before a deleted section (0 at the top), and stays on
\* the index of a deleted task, or on the last line when that index is past
\* the end; an undo right after gives back the document and the cursor.
C15_DeleteRemovesOneLine ==
    [][ Delete =>
          LET i == m.cursor
              n == Len(m.lines) - 1
          IN  /\ Len(m'.lines) = n
              /\ \A k \in 1..n : m'.lines[k] = IF k <= i THEN m.lines[k] ELSE m.lines[k + 1]
              /\ m'.cursor = IF m.lines[i + 1].Kind = lineSection
                             THEN (IF i - 1 > 0 THEN i - 1 ELSE 0)
                             ELSE IF n = 0 THEN 0
                             ELSE IF i < n - 1 THEN i ELSE n - 1
              /\ undo(m').lines = m.lines
              /\ undo(m').cursor = i ]_vars

\* the section at index 1 has been deleted: the cursor is on the line before
C15_Witness ==
    /\ g.op
    /\ m.statusMessage = "Deleted section"
    /\ Len(m.lines) = 2
    /\ m.cursor = 0
    /\ Len(m.undoStack) > 0
    /\ Top(m.undoStack).cursor = 1
    /\ Top(m.undoStack).lines[2].Kind = lineSection

\* C16: the level of the indent under edit is in 0..3; Tab raises it by one
\* up to 3 and Shift-Tab lowers it by one down to 0, the new indent being
\* the 4, 8 or 12 spaces of the new level; a request that cannot move the
\* level leaves the indent string as it was.
C16_IndentClamps ==
    [][ ((EditTab \/ EditShiftTab) /\ m.editTarget = editTargetTask) =>
          LET level == getIndentLevel(currentIndent(m))
              level2 == getIndentLevel(currentIndent(m'))
          IN  /\ level \in 0..3 /\ level2 \in 0..3
              /\ EditTab => level2 = (IF level < 3 THEN level + 1 ELSE 3)
              /\ EditShiftTab => level2 = (IF level > 0 THEN level - 1 ELSE 0)
              /\ level2 # level => currentIndent(m') = Spaces(4 * level2)
              /\ level2 = level => currentIndent(m') = currentIndent(m) ]_vars

\* C17: Enter on a non-blank draft of a task leaves the committed task at its
\* index (the edited index of an update, the clamped insert index of an
\* insert, which adds one line) and a new empty insert draft open right
\* below it; Enter on a non-blank draft of a section ends in Normal mode.
C17_EnterContinuesBelow ==
    [][ ((\E io \in IOs : EditEnter(io)) /\ ~Blank(m.draft)) =>
          LET idx == IF m.editIntent = editIntentUpdate THEN m.editIndex
                     ELSE clampIndex(m.insertIndex, Len(m.lines))
          IN  IF m.editTarget = editTargetTask
              THEN /\ m'.mode = modeEdit
                   /\ m'.editIntent = editIntentInsert
                   /\ m'.editTarget = editTargetTask
                   /\ m'.draft = <<>>
                   /\ m'.insertIndex = idx + 1
                   /\ InRange(m'.lines, idx)
                   /\ At(m'.lines, idx).Kind = lineTask
                   /\ At(m'.lines, idx).Task.Text = m.draft
                   /\ Len(m'.lines) = Len(m.lines) + (IF m.editIntent = editIntentInsert THEN 1 ELSE 0)
              ELSE m'.mode = modeNormal ]_vars

\* Enter has added a task below the task committed by the Enter before it
C17_Witness ==
    /\ g.last = "enter"
    /\ g.op
    /\ m.mode = modeEdit
    /\ m.editIntent = editIntentInsert
    /\ m.draft = <<>>
    /\ Len(m.lines) = 2
    /\ m.insertIndex = 2
    /\ m.lines[2].Kind = lineTask

\* a step that opens a draft
StartsEdit == m.mode = modeNormal /\ m'.mode = modeEdit

\* C18: no draft is open under an active selection: the step that opens a
\* draft, on a task, a section or a new line, and the step that deletes a
\* line both end with the selection inactive.
C18_NoSelectionWhileEditing ==
    /\ [](m.mode = modeEdit => ~m.selectionActive)
    /\ [][ (StartsEdit \/ Delete) => ~m'.selectionActive ]_vars

\* a draft has been opened on a line under an active selection
C18_Witness ==
    /\ g.sel
    /\ m.mode = modeEdit
    /\ m.editIntent = editIntentUpdate
    /\ ~m.selectionActive

\* the indices the handlers dereference without a test of their own: the
\* cursor of Normal mode on a non-empty document (toggle, dd, i, e), the two
\* ends of the selection range, the index of the line under an update draft,
\* and the index an insert draft commits at
CursorDerefInBounds == (m.mode = modeNormal /\ Len(m.lines) > 0) => InRange(m.lines, m.cursor)

SelectionEndsInBounds ==
    selectionRange(m) # <<>> =>
        InRange(m.lines, selectionRange(m)[1]) /\ InRange(m.lines, selectionRange(m)[2])

EditIndexInBounds ==
    (m.mode = modeEdit /\ m.editIntent = editIntentUpdate) => InRange(m.lines, m.editIndex)

InsertIndexInBounds ==
    (m.mode = modeEdit /\ m.editIntent = editIntentInsert) =>
        m.insertIndex >= 0 /\ m.insertIndex <= Len(m.lines)

\* a step that handles the editorFinishedMsg
EditorCompletes == editor /\ ~editor'

ReloadFails ==
    /\ file.exists
    /\ \/ \E io \in {"fail", "statfail"} : KeyReload(io)
       \/ Tick("stat0fail")
       \/ /\ m.mode = modeNormal
          /\ file.mtime > m.lastModifiedAt
          /\ \E io \in {"fail", "statfail"} : Tick(io)

\* C20: a reload that fails, by the tick or by 'r', records the error and
\* leaves the document, the cursor, the selection, both stacks,
\* lastModifiedAt and the file as they were; a delete or a commit whose save
\* fails records the error and leaves lastModifiedAt as it was, and ends in
\* the mode and with the document it ends with when the save succeeds.
C20_FailuresAreRecorded ==
    /\ [][ ReloadFails =>
              /\ m'.err = errIO
              /\ m'.lines = m.lines
              /\ m'.cursor = m.cursor
              /\ m'.selectionActive = m.selectionActive
              /\ m'.selectionAnchor = m.selectionAnchor
              /\ m'.undoStack = m.undoStack
              /\ m'.redoStack = m.redoStack
              /\ m'.lastModifiedAt = m.lastModifiedAt
              /\ m'.mode = m.mode
              /\ file' = file ]_vars
    /\ [][ \A io \in {"fail", "statfail"} :
              /\ (EditEsc(io) /\ ~Blank(m.draft)) =>
                    /\ m'.err = errIO
                    /\ m'.lastModifiedAt = m.lastModifiedAt
                    /\ m'.mode = editKeyEsc(St, "ok", now).m.mode
                    /\ m'.lines = editKeyEsc(St, "ok", now).m.lines
              /\ (KeyD(io) /\ m.pendingD /\ Len(m.lines) > 0) =>
                    /\ m'.err = errIO
                    /\ m'.lastModifiedAt = m.lastModifiedAt
                    /\ m'.mode = modeNormal
                    /\ m'.lines = handleNormalKey(St, "d", "ok", now).m.lines ]_vars

\* a tick has failed to reload a newer file under a selection, after a commit
C20_Witness ==
    /\ g.last = "tick"
    /\ m.mode = modeNormal
    /\ m.err = errIO
    /\ file.mtime > m.lastModifiedAt
    /\ m.selectionActive
    /\ Len(m.undoStack) > 0
    /\ Len(m.lines) > 0

\* a line of the file that matches the Task pattern or the Section pattern
Recognised(l) == TrimSpace(l) # <<>> /\ (sectionMatch(l) # {} \/ checkboxMatch(l) # {})

FileLines(f) == SplitLines(RemoveCR(f.content))

Dropped(f) == {l \in {FileLines(f)[i] : i \in 1..Len(FileLines(f))} : TrimSpace(l) # <<>> /\ ~Recognised(l)}

\* C21: a load makes one item for each line that matches a pattern, in the
\* order of the file, and none for any other line; a successful save
\* leaves in the file the serialized items, each a line that matches a
\* pattern, and none of the lines the load had dropped.
C21_UnmatchedLinesDropped ==
    /\ [][ KeyReload("ok") =>
              LET kept == SelectSeq(FileLines(file), Recognised)
              IN  /\ Len(m'.lines) = Len(kept)
                  /\ \A i \in 1..Len(kept) : <<m'.lines[i]>> = parseLine(kept[i]) ]_vars
    /\ [][ ((KeyToggle("ok") \/ KeyD("ok")) /\ file' # file) =>
              /\ file'.content = serialize(m'.lines)
              /\ Dropped(file') = {}
              /\ \A l \in Dropped(file) : \A i \in 1..Len(FileLines(file')) : FileLines(file')[i] # l ]_vars

\* a toggle has saved the one task loaded from the file another program
\* wrote, whose first line matches no pattern
C21_Witness ==
    /\ m.statusMessage = "Marked Incomplete"
    /\ Len(m.lines) = 1
    /\ m.lines[1].Kind = lineTask
    /\ m.lines[1].Task.Bullet = "*"
    /\ file.content = <<"*", " ", "[", " ", "]", " ", "b", "\n">>

\* the file comes into existence in this step
FileCreated == ~file.exists /\ file'.exists

C23_TickNoOp ==
    [][ \A io \in TickIOs :
          (Tick(io) /\ (~file.exists \/ ~(file.mtime > m.lastModifiedAt))) =>
              /\ m'.lines = m.lines
              /\ m'.cursor = m.cursor
              /\ m'.selectionActive = m.selectionActive
              /\ m'.selectionAnchor = m.selectionAnchor
              /\ m'.mode = m.mode
              /\ m'.pendingReload = m.pendingReload
              /\ m'.lastModifiedAt = m.lastModifiedAt
              /\ m'.undoStack = m.undoStack
              /\ m'.redoStack = m.redoStack
              /\ file' = file
              /\ io # "stat0fail" => m' = m ]_vars

\* a tick has found the file of the time of the last commit, under a selection
C23_Witness ==
    /\ g.last = "tick"
    /\ file.exists
    /\ file.mtime = m.lastModifiedAt
    /\ m.lastModifiedAt > 1
    /\ m.selectionActive
    /\ Len(m.undoStack) > 0
    /\ m.err = errNone

\* the index an insert asked for at i starts at
InsertStart(i) ==
    IF Len(m.lines) = 0 \/ i < 0 THEN 0 ELSE IF i > Len(m.lines) THEN Len(m.lines) ELSE i

\* a step that commits the draft of an insert
InsertCommit ==
    (EditEsc("ok") \/ EditEnter("ok")) /\ m.editIntent = editIntentInsert /\ ~Blank(m.draft)

RECURSIVE TasksUpTo(_, _)
TasksUpTo(lines, i) ==
    IF i < 0 \/ lines = <<>> THEN <<>>
    ELSE (IF Head(lines).Kind = lineTask THEN <<Head(lines).Task>> ELSE <<>>)
             \o TasksUpTo(Tail(lines), i - 1)

\* C25: o and O open the draft of a new task with the indent and the bullet
\* of the nearest task at or before the cursor, sections skipped, on a task
\* and on a section alike.
C25_TemplateFromNearestTask ==
    [][ ((KeyInsertBelow \/ KeyInsertAbove) /\ TasksUpTo(m.lines, m.cursor) # <<>>) =>
          LET before == TasksUpTo(m.lines, m.cursor)
              nearest == before[Len(before)]
          IN  /\ m'.editTemplate.Indent = nearest.Indent
              /\ m'.editTemplate.Bullet = nearest.Bullet ]_vars

\* a step that commits the draft of an update
UpdateCommit == Commit /\ m.editIntent = editIntentUpdate

\* C26: i opens the draft on the line under the cursor, and the index stays
\* while the draft is open; the commit of a non-blank draft writes the draft
\* as the text or the title of that line and nothing else: the length, the
\* other lines, and the kind, the bullet and the completed flag of the line
\* are as they were before the commit and when the draft was opened.
C26_UpdateReplacesTextOnly ==
    /\ [][ (KeyEditCurrent /\ m'.mode = modeEdit) =>
              (m'.editIntent = editIntentUpdate /\ m'.editIndex = m.cursor) ]_vars
    /\ [][ (m.mode = modeEdit /\ m.editIntent = editIntentUpdate /\ m'.editIntent = editIntentUpdate) =>
              m'.editIndex = m.editIndex ]_vars
    /\ [][ UpdateCommit =>
              LET i == m.editIndex + 1
                  old == m.lines[i]
                  new == m'.lines[i]
              IN  /\ Len(m'.lines) = Len(m.lines)
                  /\ Len(g.start) = Len(m.lines)
                  /\ \A k \in 1..Len(m.lines) : k # i => (m'.lines[k] = m.lines[k] /\ m'.lines[k] = g.start[k])
                  /\ new.Kind = old.Kind /\ new.Kind = g.start[i].Kind
                  /\ IF old.Kind = lineTask
                     THEN /\ new.Task = [old.Task EXCEPT !.Text = m.draft]
                          /\ new.Task.Bullet = g.start[i].Task.Bullet
                          /\ new.Task.Completed = g.start[i].Task.Completed
                     ELSE new.SectionTitle = m.draft ]_vars

\* Esc has committed a new title to the section below the two tasks
C26_Witness ==
    /\ g.last = "esc"
    /\ g.op
    /\ Len(m.lines) = 3
    /\ m.cursor = 2
    /\ m.lines[3].Kind = lineSection
    /\ m.lines[3].SectionTitle = <<"a">>
    /\ m.lines[2].Task.Bullet = "*"

\* the text of a task, the title of a section
ItemText(l) == IF l.Kind = lineSection THEN l.SectionTitle ELSE l.Task.Text

C28_EmptyStackNoOp ==
    /\ [][ ((KeyUndo("ok") /\ m.undoStack = <<>>) \/ (KeyRedo("ok") /\ m.redoStack = <<>>)) =>
              /\ m'.lines = m.lines
              /\ m'.cursor = m.cursor
              /\ m'.selectionActive = m.selectionActive
              /\ m'.undoStack = m.undoStack
              /\ m'.redoStack = m.redoStack
              /\ m'.lastModifiedAt = m.lastModifiedAt
              /\ m'.err = m.err
              /\ file' = file
              /\ m'.statusMessage \in {"Nothing to undo", "Nothing to redo"} ]_vars
    /\ [][ (KeyUndo("ok") /\ m.undoStack # <<>>) =>
              /\ m'.lines = Top(m.undoStack).lines
              /\ m'.statusMessage = "Undo"
              /\ file'.exists /\ file'.content = serialize(m'.lines) /\ file'.mtime = now
              /\ m'.lastModifiedAt = now ]_vars
    /\ [][ (KeyRedo("ok") /\ m.redoStack # <<>>) =>
              /\ m'.lines = Top(m.redoStack).lines
              /\ m'.statusMessage = "Redo"
              /\ file'.exists /\ file'.content = serialize(m'.lines) /\ file'.mtime = now
              /\ m'.lastModifiedAt = now ]_vars

\* u has found the undo stack empty while the file on disk had been emptied
\* by another program
C28_Witness ==
    /\ m.statusMessage = "Nothing to undo"
    /\ m.undoStack = <<>>
    /\ Len(m.lines) > 0
    /\ file.content = <<>>
    /\ m.err = errNone

Min2(a, b) == IF a <= b THEN a ELSE b
Max2(a, b) == IF a <= b THEN b ELSE a

HistoryStep ==
    \/ KeyUndo("ok") /\ m.undoStack # <<>>
    \/ KeyRedo("ok") /\ m.redoStack # <<>>

\* a step that cancels the selection: Esc, or V on an active selection
CancelStep == (KeyEsc \/ KeyVisual) /\ m.selectionActive

\* C30: the selection is inactive after a delete, after the commit of an
\* insert, after an undo, after a redo, and after Esc or V has cancelled it.
C30_SelectionCleared ==
    [][ (Delete \/ InsertCommit \/ HistoryStep \/ CancelStep) => ~m'.selectionActive ]_vars

\* the results with which the editor aborts: it exits with an error, its file
\* cannot be read, or the text is empty once trimmed
AbortResults == {<<"error">>, <<"unreadable">>, <<"text", <<" ">>>>}

EditorAborts == \E res \in AbortResults : EditorFinished(res, "ok")

\* 'e' with the cursor on a section or on a document without lines
ExternalEditRefused ==
    /\ \E io \in {"ok", "fail"} : KeyExternalEdit(io)
    /\ (Len(m.lines) = 0 \/ At(m.lines, m.cursor).Kind # lineTask)

FramesApart ==
    LET frames == g.ua \o g.ra
    IN  /\ Len(g.ua) = Len(m.undoStack)
        /\ Len(g.ra) = Len(m.redoStack)
        /\ \A k \in 1..Len(frames) : frames[k] # g.live
        /\ \A j, k \in 1..Len(frames) : j # k => frames[j] # frames[k]

\* the frames that stay on their stack over a step hold the lines they held
FramesKept ==
    /\ \A j \in 1..Len(g.ua) : \A k \in 1..Len(g'.ua) :
          g'.ua[k] = g.ua[j] => m'.undoStack[k].lines = m.undoStack[j].lines
    /\ \A j \in 1..Len(g.ra) : \A k \in 1..Len(g'.ra) :
          g'.ra[k] = g.ra[j] => m'.redoStack[k].lines = m.redoStack[j].lines

\* C32: every frame of the undo stack and of the redo stack has an array of
\* its own, which neither the lines nor another frame uses, also after undo
\* and redo have handed the array of a popped frame to the lines; a frame
\* that stays on its stack over a step, whatever the step changes in the
\* lines, holds the lines it held before.
C32_FramesAreSnapshots ==
    /\ [](g.track => FramesApart)
    /\ [][ g.track => FramesKept ]_vars

\* after two deletes and an undo the lines use the array of the popped
\* frame, the task in it is completed, and a frame is left on each stack
C32_Witness ==
    /\ g.track
    /\ Len(g.ua) = 1
    /\ Len(g.ra) = 1
    /\ g.live # 0
    /\ Len(m.lines) = 1
    /\ m.lines[1].Kind = lineTask
    /\ m.lines[1].Task.Completed
    /\ Len(m.undoStack[1].lines) = 2
    /\ ~m.undoStack[1].lines[1].Task.Completed
    /\ Len(m.redoStack[1].lines) = 0

\* C33: in Normal mode, in a session in which no save and no load fails and
\* no other program writes the file, the file holds the serialization of
\* the lines.
C33_FileMatchesMemory ==
    (m.mode = modeNormal /\ m.err = errNone) =>
        /\ file.exists
        /\ file.content = serialize(m.lines)

\* a step that commits a draft and saves with every system call succeeding
SaveStep == (EditEsc("ok") \/ EditEnter("ok")) /\ ~Blank(m.draft)

\* C34: after a save that succeeds, a load of the file gives the lines that
\* were saved, item by item, also when the text of an item begins with a
\* blank.
C34_SaveThenLoad ==
    [][ SaveStep =>
          /\ file'.content = serialize(m'.lines)
          /\ loadLines(file', "ok").lines = m'.lines ]_vars

\* C35: when the editor completes and its text changes the lines, the line
\* it rewrites is the item that was under the cursor when the editor was
\* started, whatever was handled in between.
C35_EditAppliesToStartedItem ==
    [][ (g.watch /\ EditorCompletes /\ m'.lines # m.lines) =>
            /\ g.ext # <<>>
            /\ InRange(m.lines, m.externalEditIdx)
            /\ At(m.lines, m.externalEditIdx) = g.ext[1] ]_vars

Modified == file.exists /\ After(file.mtime, m.lastModifiedAt)

\* the lines are the parse of the file and nothing newer is outstanding
Synced == m.lines = parseContent(file.content) /\ ~Modified

\* C37: with every tick handled in the end and every load succeeding, a
\* session in Normal mode with a newer file on disk comes to hold the parse
\* of the file, unless it saves (a delete or a commit) or opens a draft
\* first; leaving a draft with Esc on a blank text, with a reload put off
\* by a tick during the edit, saves nothing and is back in Normal mode with
\* the newer file still outstanding, so that the same holds from there.
C37_ReloadInTheEnd ==
    /\ (Modified /\ m.mode = modeNormal) ~> (Synced \/ g.op \/ m.mode = modeEdit)
    /\ [][ (EditEsc("ok") /\ Blank(m.draft) /\ Modified) =>
              /\ m'.mode = modeNormal
              /\ Modified'
              /\ ~m'.pendingReload
              /\ file' = file ]_vars

\* a tick in Normal mode has reloaded the file another program had emptied
\* a clock tick after the session had read it
C37_Witness ==
    /\ g.last = "tick"
    /\ m.statusMessage = "Reloaded from disk"
    /\ m.mode = modeNormal
    /\ Synced
    /\ now = 2
    /\ m.lastModifiedAt = 2
    /\ m.lines # parseContent(TaskFile.content)

\* C38: pendingReload is set only in Edit mode and only while the file on
\* disk is newer than lastModifiedAt.
C38_PendingReloadIsOutstanding ==
    m.pendingReload =>
        /\ m.mode = modeEdit
        /\ file.exists
        /\ After(file.mtime, m.lastModifiedAt)

\* the keys of Normal mode other than d that the session types
OtherKey == KeyDown \/ KeyVisual \/ KeyEditCurrent \/ \E io \in IOs : KeyReload(io)

\* C39: lines are deleted only by a d handled in Normal mode with the prefix
\* pending, and the prefix is pending only in Normal mode; a d without the
\* prefix sets it and deletes nothing; any other key clears the prefix and
\* is then handled as without it; a tick leaves the prefix as it is; the
\* second d removes the line under the cursor it finds, also when a tick has
\* reloaded other lines since the first d.
C39_DeleteNeedsTwoD ==
    /\ [](m.pendingD => m.mode = modeNormal)
    /\ [][ (g'.op /\ m.mode = modeNormal) => (m.pendingD /\ \E io \in IOs : KeyD(io)) ]_vars
    /\ [][ ((\E io \in IOs : KeyD(io)) /\ ~m.pendingD) =>
              (m'.pendingD /\ m'.lines = m.lines /\ file' = file) ]_vars
    /\ [][ ((\E io \in IOs : KeyD(io)) /\ m.pendingD /\ Len(m.lines) > 0) =>
              (~m'.pendingD /\ m'.lines = RemoveAt(m.lines, m.cursor)) ]_vars
    /\ [][ (OtherKey /\ m.pendingD) =>
              (~m'.pendingD /\ ~g'.op /\ file' = file /\ m'.undoStack = m.undoStack) ]_vars
    /\ [][ (\E io \in TickIOs : Tick(io)) => m'.pendingD = m.pendingD ]_vars

\* the second d has deleted the task that a tick had loaded after the first d
C39_Witness ==
    /\ g.op
    /\ g.dreload
    /\ m.mode = modeNormal
    /\ ~m.pendingD
    /\ m.lines = <<>>
    /\ Len(m.undoStack) = 1
    /\ m.undoStack[1].lines = parseContent(<<"-", " ", "[", "x", "]", " ", "b", "\n", "n", "o", "t", "e", "\n">>)
    /\ m.statusMessage = "Deleted task"

====
